---------------------------- MODULE Spec2Model ----------------------------
(***************************************************************************)
(* Model of the AutoModel image-generation front end:                      *)
(*   - the auto model selection logic (autoModelLogic: parseRecommendation,*)
(*     selectGuidanceType, analyzeTextComplexity, selectOptimalModel);     *)
(*   - the generation-job machine of App.tsx (handleGenerate and its       *)
(*     background task, the loading of previous generations, dismissError).*)
(*                                                                         *)
(* Strings are sequences of tokens.  A recommendation string is a sequence *)
(* of upper-case words and "," separators; String.includes is the search   *)
(* for a contiguous run of words.  A prompt is a sequence of tokens that    *)
(* stands for the tokens joined by single spaces; the quote characters are *)
(* tokens of their own.                                                    *)
(***************************************************************************)
EXTENDS Integers, Sequences, FiniteSets, TLC

----------------------------------------------------------------------------
(* Bounds *)

MaxMarkers == 2
MaxPromptLen == 5
MaxRefCount == 1

----------------------------------------------------------------------------
(* Strings *)

DQ == "\""
SQ == "'"

\* s.includes(m)
Includes(s, m) ==
    \E i \in 1..(Len(s) - Len(m) + 1) : SubSeq(s, i, i + Len(m) - 1) = m

RECURSIVE SumLen(_)
\* number of characters of the tokens of s, each followed by one space
SumLen(s) ==
    IF s = <<>> THEN 0
    ELSE (CASE Head(s) = "story" -> 5
            [] Head(s) = "cat" -> 3
            [] OTHER -> 1) + 1 + SumLen(Tail(s))

\* number of characters between two quote tokens that enclose s
ContentChars(s) == 1 + SumLen(s)

\* content.trim().split(/\s+/).length ; "".split(/\s+/) is [""]
WordCount(s) == IF Len(s) = 0 THEN 1 ELSE Len(s)

\* position of the first token q of p at or after i, 0 when there is none
RECURSIVE IndexFrom(_, _, _)
IndexFrom(p, q, i) ==
    IF i > Len(p) THEN 0
    ELSE IF p[i] = q THEN i
    ELSE IndexFrom(p, q, i + 1)

\* first match of /q([^q]{1,limit})q/g in p searched from position i:
\* <<content>> of the first match, <<>> when nothing matches
RECURSIVE FirstQuoted(_, _, _, _)
FirstQuoted(p, q, limit, i) ==
    LET a == IndexFrom(p, q, i)
        b == IF a = 0 THEN 0 ELSE IndexFrom(p, q, a + 1)
    IN  IF a = 0 \/ b = 0 THEN <<>>
        ELSE LET content == SubSeq(p, a + 1, b - 1)
             IN  IF ContentChars(content) >= 1 /\ ContentChars(content) <= limit
                 THEN <<content>>
                 ELSE FirstQuoted(p, q, limit, a + 1)

----------------------------------------------------------------------------
(* autoModelLogic *)

QuotedLimit == 50

MODEL_CAPABILITIES ==
    << [name |-> "Lucid Origin", rank |-> 1, canHandleText |-> TRUE,
        canHandleImageEdit |-> TRUE, maxReferenceImages |-> 1,
        supportedGuidanceTypes |-> <<"CONTENT", "STYLE">>],
       [name |-> "FLUX.1 Kontext Pro", rank |-> 2, canHandleText |-> TRUE,
        canHandleImageEdit |-> FALSE, maxReferenceImages |-> 1,
        supportedGuidanceTypes |-> <<"CONTEXT">>],
       [name |-> "Leonardo Phoenix 1.0", rank |-> 3, canHandleText |-> TRUE,
        canHandleImageEdit |-> FALSE, maxReferenceImages |-> 6,
        supportedGuidanceTypes |-> <<"CONTENT", "STYLE", "CHARACTER">>] >>

IMAGE_EDIT_MODELS == <<"FLUX.1 Kontext">>

Undefined == "undefined"

Range(s) == {s[i] : i \in 1..Len(s)}

\* array.filter(pred), pred given as the set of elements that pass
RECURSIVE Filter(_, _)
Filter(s, keep) ==
    IF s = <<>> THEN <<>>
    ELSE IF Head(s) \in keep THEN <<Head(s)>> \o Filter(Tail(s), keep)
    ELSE Filter(Tail(s), keep)

parseRecommendation(recommendationString) ==
    [needsText |->
        Includes(recommendationString, <<"NEEDS", "TEXT", "LONG">>)
        \/ Includes(recommendationString, <<"NEEDS", "TEXT", "SHORT">>),
     needsImageEdit |-> Includes(recommendationString, <<"IMAGE", "EDIT">>),
     preferredGuidanceTypes |->
        (IF Includes(recommendationString, <<"STYLE", "REF">>)
         THEN <<"STYLE">> ELSE <<>>)
        \o (IF Includes(recommendationString, <<"CONTENT", "REF">>)
            THEN <<"CONTENT">> ELSE <<>>)
        \o (IF Includes(recommendationString, <<"CHARACTER", "REF">>)
            THEN <<"CHARACTER">> ELSE <<>>)]

GuidanceName(type) ==
    CASE type = "STYLE" -> "Style Reference"
      [] type = "CONTENT" -> "Content Reference"
      [] type = "CHARACTER" -> "Character Reference"

\* a plausible slip: the first preferred kind is taken without the test of
\* the kinds the model supports
selectGuidanceType_FirstPreferred(modelName, preferredGuidanceTypes) ==
    IF modelName = "FLUX.1 Kontext Pro" \/ modelName = "FLUX.1 Kontext"
    THEN "Context Images"
    ELSE IF preferredGuidanceTypes # <<>>
    THEN GuidanceName(Head(preferredGuidanceTypes))
    ELSE "Style Reference"

selectGuidanceType(modelName, preferredGuidanceTypes) ==
    IF modelName = "FLUX.1 Kontext Pro" \/ modelName = "FLUX.1 Kontext"
    THEN "Context Images"
    ELSE LET found == Filter(MODEL_CAPABILITIES,
                             {m \in Range(MODEL_CAPABILITIES) : m.name = modelName})
         IN  IF found = <<>> THEN "Style Reference"
             ELSE LET model == Head(found)
                      supported == Range(model.supportedGuidanceTypes)
                      hits == Filter(preferredGuidanceTypes, supported)
                  IN  IF hits # <<>> THEN GuidanceName(Head(hits))
                      ELSE IF "STYLE" \in supported THEN "Style Reference"
                      ELSE IF "CONTENT" \in supported THEN "Content Reference"
                      ELSE IF "CHARACTER" \in supported THEN "Character Reference"
                      ELSE "Style Reference"

\* the quoted-text override at the head of analyzeTextComplexity (lines
\* 308-333): the first pattern that matches decides, by the word count of its
\* first match.  The patterns /reading "..."/ ... /sign "..."/ match only
\* where /"..."/ does, and /"..."/ is tried before them.
QuotedOverride(originalPrompt) ==
    LET dq == FirstQuoted(originalPrompt, DQ, QuotedLimit, 1)
        sq == FirstQuoted(originalPrompt, SQ, QuotedLimit, 1)
        m == IF dq # <<>> THEN dq ELSE sq
    IN  IF m = <<>> THEN "none"
        ELSE IF WordCount(m[1]) <= 2 THEN "short" ELSE "long"

\* /paragraph/i, /sentence/i, /story/i, ... : "story" is the keyword of the
\* token set
HasLongKeyword(originalPrompt) ==
    \E i \in 1..Len(originalPrompt) : originalPrompt[i] = "story"

\* a plausible slip: the keyword heuristics of the generic branch are applied
\* before the explicit markers
analyzeTextComplexity_KeywordFirst(recommendationString, originalPrompt) ==
    LET hasLong == Includes(recommendationString, <<"NEEDS", "TEXT", "LONG">>)
        hasShort == Includes(recommendationString, <<"NEEDS", "TEXT", "SHORT">>)
        override == IF originalPrompt # <<>> /\ (hasLong \/ hasShort)
                    THEN QuotedOverride(originalPrompt) ELSE "none"
    IN  IF override # "none" THEN override
        ELSE IF originalPrompt # <<>> /\ HasLongKeyword(originalPrompt) THEN "long"
        ELSE IF hasLong THEN "long"
        ELSE IF hasShort THEN "short"
        ELSE IF Includes(recommendationString, <<"NEEDS", "TEXT">>) THEN "short"
        ELSE "none"

\* In the generic NEEDS TEXT branch the patterns of shortTextPatterns need one
\* of the words write, add the word, text say, label, sign say, none of which
\* is a token; without them the branch ends in 'short' unless a long-text
\* keyword is found.
analyzeTextComplexity(recommendationString, originalPrompt) ==
    LET hasLong == Includes(recommendationString, <<"NEEDS", "TEXT", "LONG">>)
        hasShort == Includes(recommendationString, <<"NEEDS", "TEXT", "SHORT">>)
        override == IF originalPrompt # <<>> /\ (hasLong \/ hasShort)
                    THEN QuotedOverride(originalPrompt) ELSE "none"
    IN  IF override # "none" THEN override
        ELSE IF hasLong THEN "long"
        ELSE IF hasShort THEN "short"
        ELSE IF Includes(recommendationString, <<"NEEDS", "TEXT">>)
             THEN IF originalPrompt # <<>> /\ HasLongKeyword(originalPrompt)
                  THEN "long" ELSE "short"
        ELSE "none"

\* insertion of m into a rank-sorted sequence after every entry of rank <= m.rank
RECURSIVE InsertByRank(_, _)
InsertByRank(m, s) ==
    IF s = <<>> THEN <<m>>
    ELSE IF Head(s).rank <= m.rank THEN <<Head(s)>> \o InsertByRank(m, Tail(s))
    ELSE <<m>> \o s

\* a plausible slip: the comparator reversed, (a, b) => b.rank - a.rank
RECURSIVE SortByRank_Descending(_)
SortByRank_Descending(s) ==
    IF s = <<>> THEN <<>>
    ELSE LET rest == SortByRank_Descending(SubSeq(s, 1, Len(s) - 1))
             m == s[Len(s)]
             before == SelectSeq(rest, LAMBDA x : x.rank >= m.rank)
             after == SelectSeq(rest, LAMBDA x : x.rank < m.rank)
         IN  before \o <<m>> \o after

\* candidateModels.sort((a, b) => a.rank - b.rank), a stable sort
RECURSIVE SortByRank(_)
SortByRank(s) ==
    IF s = <<>> THEN <<>>
    ELSE InsertByRank(s[Len(s)], SortByRank(SubSeq(s, 1, Len(s) - 1)))

Result(model, guidance) == [selectedModel |-> model, recommendedGuidanceType |-> guidance]

\* steps 3-8 of selectOptimalModel: no reference images, not an edit
SelectWithoutReferences(recommendationString, originalPrompt) ==
    LET recommendation == parseRecommendation(recommendationString)
        preferred == recommendation.preferredGuidanceTypes
        textComplexity == analyzeTextComplexity(recommendationString, originalPrompt)
        withPreferred ==
            Filter(MODEL_CAPABILITIES,
                   {m \in Range(MODEL_CAPABILITIES) :
                       \E i \in 1..Len(preferred) :
                           preferred[i] \in Range(m.supportedGuidanceTypes)})
        candidateModels ==
            IF Len(preferred) > 0 /\ Len(withPreferred) > 0
            THEN withPreferred ELSE MODEL_CAPABILITIES
    IN  IF recommendation.needsText /\ textComplexity = "long"
        THEN Result("Leonardo Phoenix 1.0",
                    IF Len(preferred) > 0
                    THEN selectGuidanceType("Leonardo Phoenix 1.0", preferred)
                    ELSE Undefined)
        ELSE IF recommendation.needsText /\ textComplexity = "short"
        THEN Result("Lucid Origin",
                    IF Len(preferred) > 0
                    THEN selectGuidanceType("Lucid Origin", preferred)
                    ELSE Undefined)
        ELSE IF Len(candidateModels) = 0
        THEN Result("Lucid Origin", Undefined)
        ELSE Result(SortByRank(candidateModels)[1].name, Undefined)

\* a plausible slip: the reference-image rule (step 2) tested before the
\* image-edit rule (step 1)
selectOptimalModel_ReferencesFirst(recommendationString, referenceImageCount, originalPrompt) ==
    IF referenceImageCount > 0
    THEN Result("FLUX.1 Kontext Pro", "Context Images")
    ELSE IF parseRecommendation(recommendationString).needsImageEdit
    THEN Result("FLUX.1 Kontext", Undefined)
    ELSE SelectWithoutReferences(recommendationString, originalPrompt)

\* a plausible slip: the text rule (step 4) tested before the reference-image
\* rule (step 2)
selectOptimalModel_TextFirst(recommendationString, referenceImageCount, originalPrompt) ==
    IF parseRecommendation(recommendationString).needsImageEdit
    THEN Result("FLUX.1 Kontext",
                IF referenceImageCount > 0 THEN "Context Images" ELSE Undefined)
    ELSE IF parseRecommendation(recommendationString).needsText
    THEN SelectWithoutReferences(recommendationString, originalPrompt)
    ELSE IF referenceImageCount > 0
    THEN Result("FLUX.1 Kontext Pro", "Context Images")
    ELSE SelectWithoutReferences(recommendationString, originalPrompt)

selectOptimalModel(recommendationString, referenceImageCount, originalPrompt) ==
    IF parseRecommendation(recommendationString).needsImageEdit
    THEN Result("FLUX.1 Kontext",
                IF referenceImageCount > 0 THEN "Context Images" ELSE Undefined)
    ELSE IF referenceImageCount > 0
    THEN Result("FLUX.1 Kontext Pro", "Context Images")
    ELSE SelectWithoutReferences(recommendationString, originalPrompt)

----------------------------------------------------------------------------
(* Inputs of the selector *)

Markers ==
    { <<"NEEDS", "TEXT", "LONG">>, <<"NEEDS", "TEXT", "SHORT">>, <<"NEEDS", "TEXT">>,
      <<"IMAGE", "EDIT">>, <<"STYLE", "REF">>, <<"CONTENT", "REF">>,
      <<"CHARACTER", "REF">> }

\* the recommendation strings made of at most n markers, each followed by a
\* separator (comma or newline)
RECURSIVE TagStrings(_)
TagStrings(n) ==
    IF n = 0 THEN {<<>>}
    ELSE LET shorter == TagStrings(n - 1)
         IN  shorter \cup {t \o m \o <<",">> : t \in shorter, m \in Markers}

PromptTokens == {"cat", "story", DQ, SQ}

\* the prompts of at most n tokens; <<>> is the empty or absent prompt
Prompts(n) == UNION {[1..k -> PromptTokens] : k \in 0..n}

----------------------------------------------------------------------------
(* Selector harness: the inputs are drawn at the start, Select applies the  *)
(* function.                                                                *)

VARIABLES tags, refCount, origPrompt, selResult

selVars == <<tags, refCount, origPrompt, selResult>>

NotCalled == Result("", Undefined)

SelInputs ==
    /\ tags \in TagStrings(MaxMarkers)
    /\ refCount \in 0..MaxRefCount
    /\ origPrompt \in Prompts(MaxPromptLen)
    /\ selResult = NotCalled

Select ==
    /\ selResult = NotCalled
    /\ selResult' = selectOptimalModel(tags, refCount, origPrompt)
    /\ UNCHANGED <<tags, refCount, origPrompt>>

----------------------------------------------------------------------------
(* App.tsx: generation jobs *)

MaxJobs == 2
MaxSoloJobs == 1
MaxImages == 1
MaxUploaded == 1
MaxLoads == 1
MaxLoadMore == 1

PageSize == 10

WS == " "

\* String.prototype.trim on a token sequence whose white space is WS tokens
RECURSIVE TrimStart(_)
TrimStart(s) == IF s # <<>> /\ Head(s) = WS THEN TrimStart(Tail(s)) ELSE s

RECURSIVE TrimEnd(_)
TrimEnd(s) ==
    IF s # <<>> /\ s[Len(s)] = WS THEN TrimEnd(SubSeq(s, 1, Len(s) - 1)) ELSE s

Trim(s) == TrimEnd(TrimStart(s))

Min(a, b) == IF a <= b THEN a ELSE b

\* MODEL_CONFIG of modelConfig, the registry of the models: the model names it
\* declares for each node type.  It is loaded once and never changes.
VARIABLE modelConfig

\* the models a registry has an entry for
ConfiguredModels ==
    { "Lucid Origin", "Lucid Realism", "FLUX.1 Kontext Pro", "FLUX.1 Kontext",
      "Leonardo Phoenix 1.0", "Leonardo Phoenix 0.9", "Flux Dev (Precision)",
      "Flux Schnell (Speed)", "SDXL 1.0", "AlbedoBase XL" }

\* the registry with every model the application names
FullConfig ==
    [ imageGeneration |->
          << "Lucid Origin", "Lucid Realism", "FLUX.1 Kontext Pro",
             "Leonardo Phoenix 1.0", "Leonardo Phoenix 0.9",
             "Flux Dev (Precision)", "Flux Schnell (Speed)",
             "SDXL 1.0", "AlbedoBase XL" >>,
      imageEdit |-> <<"FLUX.1 Kontext">>,
      features |-> [ m \in ConfiguredModels |->
          CASE m \in {"Leonardo Phoenix 1.0", "Leonardo Phoenix 0.9"} ->
                  {"alchemy", "contrast"}
            [] m \in {"SDXL 1.0", "AlbedoBase XL"} -> {"alchemy"}
            [] m \in {"Lucid Origin", "Lucid Realism"} -> {"contrast"}
            [] OTHER -> {} ] ]

\* a registry that no longer declares some model of the capability table
ReducedConfig ==
    [ imageGeneration |->
          << "Lucid Origin", "Lucid Realism", "FLUX.1 Kontext Pro",
             "Flux Dev (Precision)", "Flux Schnell (Speed)" >>,
      imageEdit |-> <<"FLUX.1 Kontext">>,
      features |-> [ m \in ConfiguredModels |->
          CASE m = "Lucid Origin" -> {"alchemy", "contrast"}
            [] m = "Leonardo Phoenix 0.9" -> {"contrast"}
            [] OTHER -> {} ] ]

ModelConfigs == {FullConfig, ReducedConfig}

\* getModelsForNodeType of modelConfig: the models the registry declares
getModelsForNodeType(nodeType) ==
    CASE nodeType = "image-generation" -> modelConfig.imageGeneration
      [] nodeType = "image-edit" -> modelConfig.imageEdit
      [] OTHER -> <<>>

\* modelSupports(modelName, feature) of modelConfig
modelSupports(modelName, feature) ==
    /\ modelName \in DOMAIN modelConfig.features
    /\ feature \in modelConfig.features[modelName]

getImageGuidanceConfig(modelName) ==
    CASE modelName \in {"Flux Dev (Precision)", "Flux Schnell (Speed)", "Lucid Origin"} ->
            {"styleRef", "contentRef"}
      [] modelName \in {"Leonardo Phoenix 1.0", "Leonardo Phoenix 0.9",
                        "Leonardo Lightning XL", "Leonardo Anime XL",
                        "Leonardo Diffusion XL", "Leonardo Kino XL",
                        "Leonardo Vision XL", "SDXL 1.0", "AlbedoBase XL"} ->
            {"styleRef", "charRef", "contentRef"}
      [] modelName = "Lucid Realism" -> {"styleRef"}
      [] OTHER -> {}

\* modelName.includes('Lucid') || .includes('Kino') || .includes('Phoenix')
StrengthOnly(modelName) ==
    modelName \in {"Lucid Origin", "Lucid Realism", "Leonardo Kino XL",
                   "Leonardo Phoenix 1.0", "Leonardo Phoenix 0.9"}

\* getReferenceConfig with uploaded = the number of uploaded reference images
\* of the render; <<>> is undefined
getReferenceConfig(modelToUse, recommendedGuidanceType, uploaded) ==
    IF uploaded = 0 THEN <<>>
    ELSE IF modelToUse = "FLUX.1 Kontext" \/ modelToUse = "FLUX.1 Kontext Pro"
    THEN << [type |-> "Context Images", strength |-> Undefined,
             weight |-> FALSE, count |-> Min(uploaded, 6)] >>
    ELSE << [type |-> IF recommendedGuidanceType # Undefined
                         /\ recommendedGuidanceType # "Context Images"
                      THEN recommendedGuidanceType
                      ELSE IF modelToUse = "Lucid Realism" THEN "Style Reference"
                      ELSE IF "styleRef" \in getImageGuidanceConfig(modelToUse)
                      THEN "Style Reference"
                      ELSE IF "contentRef" \in getImageGuidanceConfig(modelToUse)
                      THEN "Content Reference"
                      ELSE "Style Reference",
             strength |-> "Mid",
             weight |-> ~StrengthOnly(modelToUse),
             count |-> Min(uploaded, 6)] >>

\* the value enhanceWithGemini returns (lines 655-676) for the prompt it
\* extracted and the result sel of selectOptimalModel
EnhancerResult(enhancedPrompt, sel) ==
    LET allValidModels == Range(getModelsForNodeType("image-generation"))
                          \cup Range(getModelsForNodeType("image-edit"))
    IN  [enhancedPrompt |-> enhancedPrompt,
         selectedModel |-> sel.selectedModel,
         recommendedModel |-> IF sel.selectedModel \in allValidModels
                              THEN sel.selectedModel ELSE "Lucid Origin",
         recommendedGuidanceType |-> sel.recommendedGuidanceType]

\* a plausible slip: the selector's choice handed back without the check
\* against the registry
enhanceWithGemini_Unvalidated(userPrompt, updatedPrompt, recommendations, uploaded) ==
    LET enhancedPrompt == IF updatedPrompt = <<>> THEN userPrompt ELSE Trim(updatedPrompt[1])
        recommendationsString ==
            IF recommendations = <<>> THEN <<"STYLE", "REF", ",">> ELSE recommendations[1]
        sel == selectOptimalModel(recommendationsString, uploaded, userPrompt)
    IN  [enhancedPrompt |-> enhancedPrompt,
         selectedModel |-> sel.selectedModel,
         recommendedModel |-> sel.selectedModel,
         recommendedGuidanceType |-> sel.recommendedGuidanceType]

\* what the enhancer call hands back: the text between the <updated_prompt>
\* tags, or the user's prompt when the tags are missing, and the validated
\* result of the selector on the text between the <recommendations> tags,
\* 'STYLE REF,' when those are missing.  selectedModel is the local of line
\* 662, the selector's choice before the validation.
enhanceWithGemini(userPrompt, updatedPrompt, recommendations, uploaded) ==
    LET enhancedPrompt == IF updatedPrompt = <<>> THEN userPrompt ELSE Trim(updatedPrompt[1])
        recommendationsString ==
            IF recommendations = <<>> THEN <<"STYLE", "REF", ",">> ELSE recommendations[1]
    IN  EnhancerResult(enhancedPrompt,
                       selectOptimalModel(recommendationsString, uploaded, userPrompt))

VARIABLES apiKey, geminiApiKey, generationJobs, tasks, initialLoads,
          isLoadingMore, hasMoreGenerations, generationsOffset, moreLoad

\* isSettingsModalOpen is the state of that name; alertMessage is the text of
\* the last alert() of handleGenerate, Undefined before the first
VARIABLES isSettingsModalOpen, alertMessage

\* the contrast control, in tenths (10 is the initial 1.0)
VARIABLE contrast

\* referenceImages is the state of that name, each image with the number that
\* stands for its id; nextRefId is the number of images created so far
VARIABLES referenceImages, nextRefId

jobVars == <<modelConfig, apiKey, geminiApiKey, generationJobs, tasks, initialLoads,
             isLoadingMore, hasMoreGenerations, generationsOffset, moreLoad,
             isSettingsModalOpen, alertMessage, contrast, referenceImages, nextRefId>>

\* The workflow graph (types.ts: Workflow, NodeData, Connection) and the state
\* of the editing gestures and of a run:
\*   nodes        the node instances in creation order
\*   nextNodeId   the number of nodes created so far
\*   connections  the connections
\*   draggingConnectionInfo  <<>> or <<the start point of the connection
\*                being dragged>>
\*   nodeMenu     <<>> or <<the filter of the open node menu>>
\*   uploads      the file uploads in flight, each with what its closure holds
\*   graphError   the failure of the last graph operation, Undefined if none
\*   run          the state of the scheduler's run
VARIABLES nodes, nextNodeId, connections, draggingConnectionInfo, nodeMenu,
          uploads, graphError, run

graphVars == <<nodes, nextNodeId, connections, draggingConnectionInfo, nodeMenu,
               uploads, graphError, run>>

NoRun == [phase |-> "idle", order |-> <<>>, pos |-> 0, error |-> Undefined,
          cyclic |-> {}, backendCalls |-> 0]

\* the empty workflow
GraphIdle ==
    /\ nodes = <<>>
    /\ nextNodeId = 0
    /\ connections = {}
    /\ draggingConnectionInfo = <<>>
    /\ nodeMenu = <<>>
    /\ uploads = <<>>
    /\ graphError = Undefined
    /\ run = NoRun

vars == <<selVars, jobVars, graphVars>>

\* { ...job, ...changes }
Spread(job, changes) ==
    [f \in DOMAIN job |-> IF f \in DOMAIN changes THEN changes[f] ELSE job[f]]

\* prev.map(job => job.id === jobId ? { ...job, ...changes } : job)
MapJobs(prev, jobId, changes) ==
    [i \in 1..Len(prev) |->
        IF prev[i].id = jobId THEN Spread(prev[i], changes) ELSE prev[i]]

\* prev.filter(job => job.id !== jobId)
RECURSIVE RemoveJob(_, _)
RemoveJob(prev, jobId) ==
    IF prev = <<>> THEN <<>>
    ELSE IF Head(prev).id = jobId THEN RemoveJob(Tail(prev), jobId)
    ELSE <<Head(prev)>> \o RemoveJob(Tail(prev), jobId)

\* a plausible slip: every job starts in 'loading'
InitialStatus_Loading(needsEnhancement) == "loading"

InitialStatus(needsEnhancement) == IF needsEnhancement THEN "enhancing" ELSE "loading"

\* the job record handleGenerate creates
NewJob(jobId, selectedModel, needsEnhancement, currentPrompt, uploaded) ==
    [id |-> jobId,
     prompt |-> currentPrompt,
     enhancedPrompt |-> <<>>,
     status |-> InitialStatus(needsEnhancement),
     error |-> Undefined,
     images |-> <<>>,
     model |-> selectedModel,
     actualModel |-> IF selectedModel = "Auto" THEN Undefined ELSE selectedModel,
     needsEnhancement |-> needsEnhancement,
     referenceConfig |-> IF selectedModel = "Auto" THEN <<>>
                         ELSE getReferenceConfig(selectedModel, Undefined, uploaded),
     isPrevious |-> FALSE]

\* the jobs fetchUserGenerations(apiKey, offset, 10) returns when the backend
\* returns n complete generations of the page
PreviousJobs(offset, n) ==
    [i \in 1..n |->
        [id |-> <<"generation", offset + i>>,
         prompt |-> <<"cat">>,
         enhancedPrompt |-> <<>>,
         status |-> "completed",
         error |-> Undefined,
         images |-> <<1>>,
         model |-> "Lucid Origin",
         actualModel |-> Undefined,
         needsEnhancement |-> FALSE,
         referenceConfig |-> <<>>,
         isPrevious |-> TRUE]]

\* prev.find(job => job.id === jobId): <<>> is undefined
FindJob(jobs, jobId) ==
    LET found == {i \in 1..Len(jobs) : jobs[i].id = jobId}
    IN  IF found = {} THEN <<>>
        ELSE <<jobs[CHOOSE i \in found : \A k \in found : i <= k]>>

Max(a, b) == IF a >= b THEN a ELSE b

\* a plausible slip: the user's contrast sent for a Phoenix model as it is
ContrastFields_NoFloor(actualModelToUse, userContrast) ==
    IF modelSupports(actualModelToUse, "alchemy")
    THEN [alchemy |-> TRUE,
          contrast |-> IF actualModelToUse \in {"Leonardo Phoenix 1.0", "Leonardo Phoenix 0.9"}
                       THEN <<userContrast>> ELSE <<>>]
    ELSE IF modelSupports(actualModelToUse, "contrast")
    THEN [alchemy |-> FALSE, contrast |-> <<userContrast>>]
    ELSE [alchemy |-> FALSE, contrast |-> <<>>]

\* payload.alchemy and payload.contrast (lines 858-867); contrast <<>> is a
\* payload without the field, 25 is 2.5
ContrastFields(actualModelToUse, userContrast) ==
    IF modelSupports(actualModelToUse, "alchemy")
    THEN [alchemy |-> TRUE,
          contrast |-> IF actualModelToUse \in {"Leonardo Phoenix 1.0", "Leonardo Phoenix 0.9"}
                       THEN <<Max(userContrast, 25)>> ELSE <<>>]
    ELSE IF modelSupports(actualModelToUse, "contrast")
    THEN [alchemy |-> FALSE, contrast |-> <<userContrast>>]
    ELSE [alchemy |-> FALSE, contrast |-> <<>>]

\* a plausible slip: the fallback tries Content Reference before Style Reference
Guidance_ContentFirst(actualModelToUse, currentJob, uploaded) ==
    LET recommendedGuidanceType ==
            IF currentJob = <<>> \/ currentJob[1].referenceConfig = <<>> THEN Undefined
            ELSE currentJob[1].referenceConfig[1].type
        guidanceConfig == getImageGuidanceConfig(actualModelToUse)
        guidanceType ==
            IF recommendedGuidanceType # Undefined /\ actualModelToUse # "Lucid Realism"
            THEN CASE recommendedGuidanceType = "Character Reference" ->
                         IF "charRef" \in guidanceConfig THEN "charRef" ELSE "styleRef"
                   [] recommendedGuidanceType = "Content Reference" ->
                         IF "contentRef" \in guidanceConfig THEN "contentRef" ELSE "styleRef"
                   [] OTHER -> "styleRef"
            ELSE IF actualModelToUse = "Lucid Realism" THEN "styleRef"
            ELSE IF "contentRef" \in guidanceConfig THEN "contentRef"
            ELSE "styleRef"
        none == [contextImages |-> 0, controlnets |-> 0, guidanceType |-> Undefined]
    IN  IF uploaded = 0 THEN none
        ELSE IF actualModelToUse = "FLUX.1 Kontext" \/ actualModelToUse = "FLUX.1 Kontext Pro"
        THEN [none EXCEPT !.contextImages = uploaded]
        ELSE IF guidanceType \in guidanceConfig
        THEN [none EXCEPT !.controlnets = uploaded, !.guidanceType = guidanceType]
        ELSE none

\* the image guidance of the request (lines 873-987) for uploaded uploaded
\* reference images and currentJob = generationJobs.find(...) of the closure:
\* the number of contextImages, the number of controlnets and their kind
Guidance(actualModelToUse, currentJob, uploaded) ==
    LET recommendedGuidanceType ==
            IF currentJob = <<>> \/ currentJob[1].referenceConfig = <<>> THEN Undefined
            ELSE currentJob[1].referenceConfig[1].type
        guidanceConfig == getImageGuidanceConfig(actualModelToUse)
        guidanceType ==
            IF recommendedGuidanceType # Undefined /\ actualModelToUse # "Lucid Realism"
            THEN CASE recommendedGuidanceType = "Character Reference" ->
                         IF "charRef" \in guidanceConfig THEN "charRef" ELSE "styleRef"
                   [] recommendedGuidanceType = "Content Reference" ->
                         IF "contentRef" \in guidanceConfig THEN "contentRef" ELSE "styleRef"
                   [] OTHER -> "styleRef"
            ELSE IF actualModelToUse = "Lucid Realism" THEN "styleRef"
            ELSE IF "styleRef" \in guidanceConfig THEN "styleRef"
            ELSE IF "contentRef" \in guidanceConfig THEN "contentRef"
            ELSE "styleRef"
        none == [contextImages |-> 0, controlnets |-> 0, guidanceType |-> Undefined]
    IN  IF uploaded = 0 THEN none
        ELSE IF actualModelToUse = "FLUX.1 Kontext" \/ actualModelToUse = "FLUX.1 Kontext Pro"
        THEN [none EXCEPT !.contextImages = uploaded]
        ELSE IF guidanceType \in guidanceConfig
        THEN [none EXCEPT !.controlnets = uploaded, !.guidanceType = guidanceType]
        ELSE none

\* the request body built at lines 842-987 by the task whose closure holds
\* closure.uploaded, closure.currentJob and closure.contrast; modelId is
\* getModelId(model)
Payload(promptToSend, actualModelToUse, closure) ==
    LET c == ContrastFields(actualModelToUse, closure.contrast)
        g == Guidance(actualModelToUse, closure.currentJob, closure.uploaded)
    IN  [prompt |-> promptToSend, model |-> actualModelToUse,
         alchemy |-> c.alchemy, contrast |-> c.contrast,
         contextImages |-> g.contextImages, controlnets |-> g.controlnets,
         guidanceType |-> g.guidanceType]

JobId(n) == <<"job", n>>

----------------------------------------------------------------------------
(* The background task of a job.  tasks[n] holds what the closure of the    *)
(* n-th accepted handleGenerate call captured (prompt, selectedModel,      *)
(* geminiEnhanceEnabled, uploaded), its locals, and the await it is at;     *)
(* autoSelected is the choice of the selector the enhancer call logged,     *)
(* recommendedGuidanceType the guidance kind the enhancer call returned.    *)

\* a plausible slip: the catch marks the records without the test on the id
Throw_EveryJob(j, message) ==
    /\ generationJobs' = [i \in 1..Len(generationJobs) |->
            [generationJobs[i] EXCEPT !.status = "error", !.error = message]]
    /\ tasks' = [tasks EXCEPT ![j] = [@ EXCEPT !.pc = "done"]]

\* the catch of the background task (lines 1045-1053)
Throw(j, message) ==
    /\ generationJobs' = MapJobs(generationJobs, JobId(j),
            [status |-> "error", error |-> message])
    /\ tasks' = [tasks EXCEPT ![j] = [@ EXCEPT !.pc = "done"]]

\* a plausible slip: no default for an Auto job
FallbackModel_Selected(selectedModel) == selectedModel

\* the model an Auto job falls back to when the enhancement fails
FallbackModel(selectedModel) ==
    IF selectedModel = "Auto" THEN "Lucid Origin" ELSE selectedModel

NoLeonardoKey == "Please set your Leonardo AI API key in settings."
NoGeminiKey ==
    "Please set your Google Gemini API key in settings to use prompt enhancement."
NoPrompt == "Please enter a prompt"

\* a plausible slip: the test of the Gemini key left out
Rejection_NoGeminiCheck(selectedModel, geminiEnhanceEnabled, prompt) ==
    IF apiKey = "" THEN NoLeonardoKey
    ELSE IF Trim(prompt) = <<>> THEN NoPrompt
    ELSE Undefined

\* the alert of the early return handleGenerate takes (lines 737-753),
\* Undefined when it takes none
Rejection(selectedModel, geminiEnhanceEnabled, prompt) ==
    LET needsEnhancement == selectedModel = "Auto" \/ geminiEnhanceEnabled
    IN  IF apiKey = "" THEN NoLeonardoKey
        ELSE IF needsEnhancement /\ geminiApiKey = "" THEN NoGeminiKey
        ELSE IF Trim(prompt) = <<>> THEN NoPrompt
        ELSE Undefined

handleGenerate(selectedModel, geminiEnhanceEnabled, prompt, uploaded) ==
    LET needsEnhancement == selectedModel = "Auto" \/ geminiEnhanceEnabled
        currentPrompt == Trim(prompt)
        n == Len(tasks) + 1
        rejection == Rejection(selectedModel, geminiEnhanceEnabled, prompt)
    IN  IF rejection # Undefined
        THEN /\ alertMessage' = rejection
             /\ isSettingsModalOpen' =
                   (rejection \in {NoLeonardoKey, NoGeminiKey} \/ isSettingsModalOpen)
             /\ UNCHANGED <<modelConfig, contrast, referenceImages, nextRefId, apiKey, geminiApiKey, generationJobs, tasks,
                            initialLoads, isLoadingMore, hasMoreGenerations,
                            generationsOffset, moreLoad, selVars, graphVars>>
        ELSE
        /\ n <= MaxJobs
        /\ generationJobs' =
              <<NewJob(JobId(n), selectedModel, needsEnhancement, currentPrompt, uploaded)>>
              \o generationJobs
        /\ tasks' = Append(tasks,
              [pc |-> IF needsEnhancement THEN "enhance" ELSE "submit",
               prompt |-> prompt,
               selectedModel |-> selectedModel,
               geminiEnhanceEnabled |-> geminiEnhanceEnabled,
               uploaded |-> uploaded,
               currentJob |-> FindJob(generationJobs, JobId(n)),
               contrast |-> contrast,
               promptToSend |-> currentPrompt,
               autoSelected |-> Undefined,
               recommendedGuidanceType |-> Undefined,
               actualModelToUse |-> selectedModel,
               actualModelForJob |-> IF selectedModel = "Auto" THEN Undefined
                                     ELSE selectedModel,
               payload |-> IF needsEnhancement THEN <<>>
                           ELSE <<Payload(currentPrompt, selectedModel,
                                      [uploaded |-> uploaded,
                                       currentJob |-> FindJob(generationJobs, JobId(n)),
                                       contrast |-> contrast])>>])
        /\ UNCHANGED <<modelConfig, contrast, referenceImages, nextRefId, alertMessage, isSettingsModalOpen, apiKey,
                       geminiApiKey, initialLoads, isLoadingMore,
                       hasMoreGenerations, generationsOffset, moreLoad, selVars, graphVars>>

\* the success path of the enhancement of task j (lines 797-819) with the
\* value r that enhanceWithGemini returned
EnhanceApply(j, r) ==
    LET t == tasks[j]
        model == IF t.selectedModel = "Auto" THEN r.recommendedModel
                 ELSE t.selectedModel
    IN  /\ generationJobs' = MapJobs(generationJobs, JobId(j),
               [enhancedPrompt |-> <<r.enhancedPrompt>>,
                status |-> "loading",
                actualModel |-> model,
                referenceConfig |->
                    getReferenceConfig(model, r.recommendedGuidanceType, t.uploaded)])
        /\ tasks' = [tasks EXCEPT ![j] = [t EXCEPT
               !.pc = "submit",
               !.promptToSend = r.enhancedPrompt,
               !.autoSelected = r.selectedModel,
               !.recommendedGuidanceType = r.recommendedGuidanceType,
               !.actualModelToUse = model,
               !.actualModelForJob = model,
               !.payload = <<Payload(r.enhancedPrompt, model, t)>>]]

\* a plausible slip: the request is built with the selected model, 'Auto' for
\* an Auto job, while the job record shows the recommended one
EnhanceReturn_SubmitsSelected(j, updatedPrompt, recommendations) ==
    /\ j \in 1..Len(tasks)
    /\ tasks[j].pc = "enhance"
    /\ LET t == tasks[j]
           r == enhanceWithGemini(Trim(t.prompt), updatedPrompt, recommendations, t.uploaded)
           model == IF t.selectedModel = "Auto" THEN r.recommendedModel
                    ELSE t.selectedModel
       IN  /\ generationJobs' = MapJobs(generationJobs, JobId(j),
                  [enhancedPrompt |-> <<r.enhancedPrompt>>,
                   status |-> "loading",
                   actualModel |-> model,
                   referenceConfig |->
                       getReferenceConfig(model, r.recommendedGuidanceType, t.uploaded)])
           /\ tasks' = [tasks EXCEPT ![j] = [t EXCEPT
                  !.pc = "submit",
                  !.promptToSend = r.enhancedPrompt,
                  !.autoSelected = r.selectedModel,
                  !.recommendedGuidanceType = r.recommendedGuidanceType,
                  !.actualModelToUse = t.selectedModel,
                  !.actualModelForJob = model,
                  !.payload = <<Payload(r.enhancedPrompt, t.selectedModel, t)>>]]
    /\ UNCHANGED <<modelConfig, contrast, referenceImages, nextRefId, alertMessage, isSettingsModalOpen, apiKey, geminiApiKey, initialLoads, isLoadingMore,
                   hasMoreGenerations, generationsOffset, moreLoad, selVars, graphVars>>

\* enhanceWithGemini returned (lines 797-819), then the request is built and sent
EnhanceReturn(j, updatedPrompt, recommendations) ==
    /\ j \in 1..Len(tasks)
    /\ tasks[j].pc = "enhance"
    /\ EnhanceApply(j, enhanceWithGemini(Trim(tasks[j].prompt), updatedPrompt,
                                         recommendations, tasks[j].uploaded))
    /\ UNCHANGED <<modelConfig, contrast, referenceImages, nextRefId, alertMessage, isSettingsModalOpen, apiKey, geminiApiKey, initialLoads, isLoadingMore,
                   hasMoreGenerations, generationsOffset, moreLoad, selVars, graphVars>>

\* enhanceWithGemini threw (lines 820-839), then the request is built and sent
EnhanceFail(j) ==
    /\ j \in 1..Len(tasks)
    /\ tasks[j].pc = "enhance"
    /\ LET t == tasks[j]
           model == FallbackModel(t.selectedModel)
       IN  /\ generationJobs' = MapJobs(generationJobs, JobId(j),
                  [status |-> "loading", actualModel |-> model])
           /\ tasks' = [tasks EXCEPT ![j] = [t EXCEPT
                  !.pc = "submit",
                  !.promptToSend = Trim(t.prompt),
                  !.actualModelToUse = model,
                  !.actualModelForJob = model,
                  !.payload = <<Payload(Trim(t.prompt), model, t)>>]]
    /\ UNCHANGED <<modelConfig, contrast, referenceImages, nextRefId, alertMessage, isSettingsModalOpen, apiKey, geminiApiKey, initialLoads, isLoadingMore,
                   hasMoreGenerations, generationsOffset, moreLoad, selVars, graphVars>>

\* the POST of the request returned (lines 989-1011)
SubmitReturn(j, response) ==
    /\ j \in 1..Len(tasks)
    /\ tasks[j].pc = "submit"
    /\ CASE response = "ok" ->
              /\ tasks' = [tasks EXCEPT ![j] = [@ EXCEPT !.pc = "poll"]]
              /\ UNCHANGED generationJobs
         [] response = "notOk" -> Throw(j, "API Error")
         [] response = "noId" -> Throw(j, "API response malformed")
         [] response = "reject" -> Throw(j, "Failed to fetch")
    /\ UNCHANGED <<modelConfig, contrast, referenceImages, nextRefId, alertMessage, isSettingsModalOpen, apiKey, geminiApiKey, initialLoads, isLoadingMore,
                   hasMoreGenerations, generationsOffset, moreLoad, selVars, graphVars>>

\* one round of the poll loop (pc = "poll": the local status is PENDING or
\* PROCESSING), and what follows the loop when it ends (lines 1012-1043)
PollReturn(j, response) ==
    /\ j \in 1..Len(tasks)
    /\ tasks[j].pc = "poll"
    /\ CASE response.kind = "reject" -> Throw(j, "Failed to fetch")
         [] response.kind = "noPk" -> Throw(j, "TypeError")
         [] response.kind = "pk" /\ response.status \in {"PENDING", "PROCESSING"} ->
              UNCHANGED <<tasks, generationJobs>>
         [] response.kind = "pk" /\ response.status = "FAILED" ->
              Throw(j, "Generation failed.")
         [] OTHER ->
              /\ tasks' = [tasks EXCEPT ![j] = [@ EXCEPT !.pc = "done"]]
              /\ generationJobs' =
                    IF response.images > 0
                    THEN MapJobs(generationJobs, JobId(j),
                            [status |-> "completed",
                             images |-> [i \in 1..response.images |-> i]])
                    ELSE generationJobs
    /\ UNCHANGED <<modelConfig, contrast, referenceImages, nextRefId, alertMessage, isSettingsModalOpen, apiKey, geminiApiKey, initialLoads, isLoadingMore,
                   hasMoreGenerations, generationsOffset, moreLoad, selVars, graphVars>>

\* the dismiss button, rendered for jobs in status 'error' (lines 1587-1589)
dismissError(jobId) ==
    /\ \E i \in 1..Len(generationJobs) :
          generationJobs[i].id = jobId /\ generationJobs[i].status = "error"
    /\ generationJobs' = RemoveJob(generationJobs, jobId)
    /\ UNCHANGED <<modelConfig, contrast, referenceImages, nextRefId, alertMessage, isSettingsModalOpen, apiKey, geminiApiKey, tasks, initialLoads, isLoadingMore,
                   hasMoreGenerations, generationsOffset, moreLoad, selVars, graphVars>>

----------------------------------------------------------------------------
(* Keys and previous generations *)

\* handleSaveSettings, and the effect on [apiKey] that starts the initial
\* load when the key changed and the list is empty (lines 534-553)
handleSaveSettings(leoKey, geminiKey) ==
    LET starts == leoKey # apiKey /\ leoKey # "" /\ Len(generationJobs) = 0
    IN  /\ starts => initialLoads < MaxLoads
        /\ apiKey' = leoKey
        /\ geminiApiKey' = geminiKey
        /\ initialLoads' = IF starts THEN initialLoads + 1 ELSE initialLoads
        /\ isSettingsModalOpen' = FALSE
        /\ UNCHANGED <<modelConfig, contrast, referenceImages, nextRefId, alertMessage, generationJobs, tasks, isLoadingMore,
                       hasMoreGenerations, generationsOffset, moreLoad, selVars, graphVars>>

\* fetchUserGenerations(apiKey, 0, 10) of the initial load resolved with n jobs
InitialLoadReturn(n) ==
    /\ initialLoads > 0
    /\ initialLoads' = initialLoads - 1
    /\ IF n > 0
       THEN /\ generationJobs' = PreviousJobs(0, n)
            /\ generationsOffset' = 10
            /\ hasMoreGenerations' = (n = 10)
       ELSE /\ hasMoreGenerations' = FALSE
            /\ UNCHANGED <<generationJobs, generationsOffset>>
    /\ UNCHANGED <<modelConfig, contrast, referenceImages, nextRefId, alertMessage, isSettingsModalOpen, apiKey, geminiApiKey, tasks, isLoadingMore, moreLoad, selVars, graphVars>>

\* loadMoreGenerations up to its await; the scroll listener calls it, and the
\* list scrolls only when it has entries
loadMoreGenerations ==
    /\ Len(generationJobs) > 0
    /\ generationsOffset < PageSize * (MaxLoadMore + 1)
    /\ apiKey # "" /\ ~isLoadingMore /\ hasMoreGenerations
    /\ isLoadingMore' = TRUE
    /\ moreLoad' = generationsOffset + 10
    /\ UNCHANGED <<modelConfig, contrast, referenceImages, nextRefId, alertMessage, isSettingsModalOpen, apiKey, geminiApiKey, generationJobs, tasks, initialLoads,
                   hasMoreGenerations, generationsOffset, selVars, graphVars>>

\* loadMoreGenerations after its await: the fetch at nextOffset gave n jobs
LoadMoreReturn(n) ==
    /\ moreLoad # 0
    /\ IF n = 0
       THEN /\ hasMoreGenerations' = FALSE
            /\ UNCHANGED <<generationJobs, generationsOffset>>
       ELSE /\ generationJobs' = generationJobs \o PreviousJobs(moreLoad, n)
            /\ generationsOffset' = moreLoad
            /\ UNCHANGED hasMoreGenerations
    /\ isLoadingMore' = FALSE
    /\ moreLoad' = 0
    /\ UNCHANGED <<modelConfig, contrast, referenceImages, nextRefId, alertMessage, isSettingsModalOpen, apiKey, geminiApiKey, tasks, initialLoads, selVars, graphVars>>

----------------------------------------------------------------------------
(* Inputs of the job machine *)

SelectableModels == {"Auto", "Leonardo Phoenix 1.0"}

TypedPrompts == { <<WS>>, <<WS, "cat", WS>> }

\* the text between the <updated_prompt> tags of the reply, <<>> without tags
UpdatedPrompts == { <<>>, << <<WS, "story", "cat">> >> }

\* the text between the <recommendations> tags of the reply, <<>> without tags
Recommendations == { <<>> } \cup { <<t>> : t \in TagStrings(1) }

SubmitResponses == {"ok", "notOk", "noId", "reject"}

\* a poll reply: fetch or json() rejected; a body without generations_by_pk;
\* a body with generations_by_pk, its status (Undefined when the field is
\* missing) and the number of its generated_images
PollReply(kind, status, images) == [kind |-> kind, status |-> status, images |-> images]

PollResponses ==
    { PollReply("reject", Undefined, 0), PollReply("noPk", Undefined, 0),
      PollReply("pk", "PENDING", 0), PollReply("pk", "PROCESSING", 0),
      PollReply("pk", "FAILED", 0), PollReply("pk", Undefined, 0) }
    \cup { PollReply("pk", "COMPLETE", n) : n \in 0..MaxImages }

LoadSizes == {0, PageSize}

----------------------------------------------------------------------------
(* App.tsx: the reference images *)

MaxFiles == 7
MaxRefImages == 7

TooManyImages == "Maximum 6 reference images allowed"
UploadFailed == "Failed to upload"

\* the images of the list ready for a request:
\* referenceImages.filter(img => img.uploadedId && !img.isUploading)
UploadedImages(images) == SelectSeq(images, LAMBDA img : img.uploadedId /\ ~img.isUploading)

\* the image addReferenceImage appends
NewImage(id) == [id |-> id, isUploading |-> TRUE, uploadedId |-> FALSE, uploadError |-> FALSE]

\* one event that hands k image files to addReferenceImage (the onchange of
\* the file picker, handleImageDrop, handleImagePaste): every call of the
\* loop tests referenceImages.length of the render the handler closed over
\* and appends through the updater
AddFiles(k) ==
    /\ nextRefId + k <= MaxRefImages
    /\ IF Len(referenceImages) >= 6
       THEN /\ alertMessage' = TooManyImages
            /\ UNCHANGED <<referenceImages, nextRefId>>
       ELSE /\ referenceImages' =
                  referenceImages \o [i \in 1..k |-> NewImage(nextRefId + i)]
            /\ nextRefId' = nextRefId + k
            /\ UNCHANGED alertMessage
    /\ UNCHANGED <<modelConfig, contrast, isSettingsModalOpen, apiKey, geminiApiKey,
                   generationJobs, tasks, initialLoads, isLoadingMore,
                   hasMoreGenerations, generationsOffset, moreLoad, selVars, graphVars>>

\* uploadImageToLeonardo of image imageId resolved (ok) or threw
ImageUploadReturn(imageId, ok) ==
    /\ \E i \in 1..Len(referenceImages) :
          referenceImages[i].id = imageId /\ referenceImages[i].isUploading
    /\ referenceImages' = [i \in 1..Len(referenceImages) |->
          IF referenceImages[i].id = imageId
          THEN [referenceImages[i] EXCEPT !.isUploading = FALSE,
                                          !.uploadedId = ok,
                                          !.uploadError = ~ok]
          ELSE referenceImages[i]]
    /\ alertMessage' = IF ok THEN alertMessage ELSE UploadFailed
    /\ UNCHANGED <<modelConfig, contrast, nextRefId, isSettingsModalOpen, apiKey,
                   geminiApiKey, generationJobs, tasks, initialLoads, isLoadingMore,
                   hasMoreGenerations, generationsOffset, moreLoad, selVars, graphVars>>

removeReferenceImage(imageId) ==
    /\ \E i \in 1..Len(referenceImages) : referenceImages[i].id = imageId
    /\ referenceImages' = SelectSeq(referenceImages, LAMBDA img : img.id # imageId)
    /\ UNCHANGED <<modelConfig, contrast, nextRefId, alertMessage, isSettingsModalOpen,
                   apiKey, geminiApiKey, generationJobs, tasks, initialLoads,
                   isLoadingMore, hasMoreGenerations, generationsOffset, moreLoad,
                   selVars, graphVars>>

ApiKeys == {"", "leonardo-key"}
GeminiKeys == {"", "gemini-key"}

----------------------------------------------------------------------------
(* Specifications *)

JobInit ==
    /\ modelConfig = FullConfig
    /\ apiKey = ""
    /\ geminiApiKey = ""
    /\ generationJobs = <<>>
    /\ tasks = <<>>
    /\ initialLoads = 0
    /\ isLoadingMore = FALSE
    /\ hasMoreGenerations = TRUE
    /\ generationsOffset = 0
    /\ moreLoad = 0
    /\ isSettingsModalOpen = FALSE
    /\ alertMessage = Undefined
    /\ contrast = 10
    /\ referenceImages = <<>>
    /\ nextRefId = 0

SelIdle ==
    /\ tags = <<>>
    /\ refCount = 0
    /\ origPrompt = <<>>
    /\ selResult = NotCalled

Init == JobInit /\ SelIdle /\ GraphIdle

(* Spec: every operation on the job list, up to MaxJobs concurrent jobs in  *)
(* Auto mode.                                                              *)

Generate ==
    /\ Len(tasks) < MaxJobs
    /\ \E p \in TypedPrompts : handleGenerate("Auto", FALSE, p, 0)

Enhanced == \E j \in 1..Len(tasks) : EnhanceReturn(j, <<>>, <<>>)

EnhanceFailed == \E j \in 1..Len(tasks) : EnhanceFail(j)

Submitted == \E j \in 1..Len(tasks), r \in {"ok", "notOk"} : SubmitReturn(j, r)

Polled ==
    \E j \in 1..Len(tasks) :
        \E r \in { PollReply("pk", "PENDING", 0), PollReply("pk", "FAILED", 0) }
                 \cup { PollReply("pk", "COMPLETE", n) : n \in 0..MaxImages } :
            PollReturn(j, r)

Dismiss == \E j \in 1..Len(tasks) : dismissError(JobId(j))

SaveSettings == \E l \in ApiKeys, g \in GeminiKeys : handleSaveSettings(l, g)

InitialLoaded == \E n \in LoadSizes : InitialLoadReturn(n)

LoadMoreLoaded == \E n \in LoadSizes : LoadMoreReturn(n)

Next ==
    \/ Generate
    \/ Enhanced
    \/ EnhanceFailed
    \/ Submitted
    \/ Polled
    \/ Dismiss
    \/ SaveSettings
    \/ InitialLoaded
    \/ loadMoreGenerations
    \/ LoadMoreLoaded

Spec == Init /\ [][Next]_vars

(* JobSpec: the life of a job under every reply of the enhancer and of the  *)
(* backend, for an account without previous generations.                   *)

JobGenerate ==
    /\ Len(tasks) < MaxSoloJobs
    /\ \E m \in SelectableModels \cap ({"Auto"} \cup Range(getModelsForNodeType("image-generation"))),
          e \in BOOLEAN, p \in TypedPrompts, u \in 0..MaxUploaded :
          handleGenerate(m, e, p, u)

JobEnhanced ==
    \E j \in 1..Len(tasks), u \in UpdatedPrompts, r \in Recommendations :
        EnhanceReturn(j, u, r)

JobSubmitted == \E j \in 1..Len(tasks), r \in SubmitResponses : SubmitReturn(j, r)

JobPolled == \E j \in 1..Len(tasks), r \in PollResponses : PollReturn(j, r)

NothingLoaded == InitialLoadReturn(0)

JobNext ==
    \/ JobGenerate
    \/ JobEnhanced
    \/ EnhanceFailed
    \/ JobSubmitted
    \/ JobPolled
    \/ Dismiss
    \/ NothingLoaded

\* the state after both keys were saved: the effect on [apiKey] has started
\* the initial load
KeysSaved ==
    /\ modelConfig \in ModelConfigs
    /\ apiKey = "leonardo-key"
    /\ geminiApiKey = "gemini-key"
    /\ generationJobs = <<>>
    /\ tasks = <<>>
    /\ initialLoads = 1
    /\ isLoadingMore = FALSE
    /\ hasMoreGenerations = TRUE
    /\ generationsOffset = 0
    /\ moreLoad = 0
    /\ isSettingsModalOpen = FALSE
    /\ alertMessage = Undefined
    /\ contrast = 10
    /\ referenceImages = <<>>
    /\ nextRefId = 0

JobInitial == KeysSaved /\ SelIdle /\ GraphIdle

JobSpec == JobInitial /\ [][JobNext]_vars

(* RequestSpec: handleGenerate with every combination of the two keys, of  *)
(* the model, of the enhancement toggle and of the prompt.                 *)

RequestGenerate ==
    /\ Len(tasks) < MaxJobs
    /\ \E m \in SelectableModels, e \in BOOLEAN, p \in TypedPrompts :
          handleGenerate(m, e, p, 0)

RequestNext ==
    \/ RequestGenerate
    \/ SaveSettings
    \/ NothingLoaded
    \/ EnhanceFailed
    \/ Submitted

RequestSpec == Init /\ [][RequestNext]_vars

(* PayloadSpec: the request built for every model of PayloadModels, under  *)
(* both registries and for every value of the contrast state.  The contrast *)
(* control of App.tsx is commented out (lines 1158-1172), so the            *)
(* application itself keeps the initial 1.0; the other values are the      *)
(* inputs of the request construction.                                     *)

\* values of CONTRAST_VALUES, in tenths
ContrastValues == {10, 25, 35}

PayloadModels ==
    {"Auto", "Leonardo Phoenix 1.0", "Leonardo Phoenix 0.9", "Lucid Origin",
     "SDXL 1.0", "Flux Dev (Precision)"}

PayloadInitial ==
    /\ modelConfig \in ModelConfigs
    /\ apiKey = "leonardo-key"
    /\ geminiApiKey = "gemini-key"
    /\ generationJobs = <<>>
    /\ tasks = <<>>
    /\ initialLoads = 1
    /\ isLoadingMore = FALSE
    /\ hasMoreGenerations = TRUE
    /\ generationsOffset = 0
    /\ moreLoad = 0
    /\ isSettingsModalOpen = FALSE
    /\ alertMessage = Undefined
    /\ contrast \in ContrastValues
    /\ referenceImages = <<>>
    /\ nextRefId = 0
    /\ SelIdle
    /\ GraphIdle

PayloadGenerate ==
    /\ Len(tasks) < MaxSoloJobs
    /\ \E m \in PayloadModels
                   \cap ({"Auto"} \cup Range(getModelsForNodeType("image-generation"))),
          e \in BOOLEAN :
          handleGenerate(m, e, <<"cat">>, 0)

PayloadNext ==
    \/ PayloadGenerate
    \/ Enhanced
    \/ EnhanceFailed
    \/ Submitted
    \/ NothingLoaded

PayloadSpec == PayloadInitial /\ [][PayloadNext]_vars

(* RefSpec: additions, uploads and removals of reference images.           *)

RefAdd == \E k \in 1..MaxFiles : AddFiles(k)

RefUploaded == \E id \in 1..MaxRefImages, ok \in BOOLEAN : ImageUploadReturn(id, ok)

RefRemove == \E id \in 1..MaxRefImages : removeReferenceImage(id)

RefNext ==
    \/ RefAdd
    \/ RefUploaded
    \/ RefRemove

RefSpec == Init /\ [][RefNext]_vars

(* SelSpec: selectOptimalModel on every input within the bounds.           *)

SelInit == SelInputs /\ JobInit /\ GraphIdle

SelNext == Select /\ UNCHANGED <<jobVars, graphVars>>

SelSpec == SelInit /\ [][SelNext]_vars

----------------------------------------------------------------------------
(* Properties of selectOptimalModel, checked under SelSpec *)

Called == selResult # NotCalled

HasEdit == Includes(tags, <<"IMAGE", "EDIT">>)
HasLong == Includes(tags, <<"NEEDS", "TEXT", "LONG">>)
HasShort == Includes(tags, <<"NEEDS", "TEXT", "SHORT">>)

\* the prompt has fewer than two double quotes and fewer than two single quotes
NoQuotedText(p) ==
    /\ Cardinality({i \in 1..Len(p) : p[i] = DQ}) < 2
    /\ Cardinality({i \in 1..Len(p) : p[i] = SQ}) < 2

\* C7: tags with the IMAGE EDIT marker select FLUX.1 Kontext for every
\* reference-image count, every other marker and every prompt; the guidance
\* is Context Images when there are reference images and none otherwise.
C7_ImageEditWins ==
    (Called /\ HasEdit) =>
        selResult = Result("FLUX.1 Kontext",
                           IF refCount > 0 THEN "Context Images" ELSE Undefined)

C7_Witness ==
    /\ Called /\ HasEdit /\ refCount > 0 /\ HasLong /\ origPrompt # <<>>
    /\ selResult.selectedModel = "FLUX.1 Kontext"

\* C8: without the IMAGE EDIT marker and with at least one reference image
\* the result is FLUX.1 Kontext Pro with Context Images, whatever text or
\* guidance markers the tags hold and whatever the prompt is.
C8_ReferencesWin ==
    (Called /\ ~HasEdit /\ refCount > 0) =>
        selResult = Result("FLUX.1 Kontext Pro", "Context Images")

C8_Witness ==
    /\ Called /\ ~HasEdit /\ refCount > 0 /\ HasLong
    /\ Includes(tags, <<"CHARACTER", "REF">>)
    /\ origPrompt # <<>>
    /\ selResult.selectedModel = "FLUX.1 Kontext Pro"

SupportedGuidanceNames(modelName) ==
    { GuidanceName(t) :
        t \in UNION { Range(m.supportedGuidanceTypes) :
                        m \in {x \in Range(MODEL_CAPABILITIES) : x.name = modelName} } }

\* C30: with no reference image and no IMAGE EDIT marker the selected model
\* is Lucid Origin or Leonardo Phoenix 1.0 for every tag string and every
\* prompt, and a recommended guidance is a kind the selected model supports.
C30_NoKontextWithoutReferences ==
    (Called /\ refCount = 0 /\ ~HasEdit) =>
        /\ selResult.selectedModel \in {"Lucid Origin", "Leonardo Phoenix 1.0"}
        /\ selResult.recommendedGuidanceType # Undefined =>
              selResult.recommendedGuidanceType
                  \in SupportedGuidanceNames(selResult.selectedModel)

C30_Witness ==
    /\ Called /\ refCount = 0 /\ ~HasEdit
    /\ HasShort
    /\ Includes(tags, <<"CHARACTER", "REF">>)
    /\ ~Includes(tags, <<"STYLE", "REF">>)
    /\ selResult = Result("Lucid Origin", "Style Reference")

\* the guidance kinds the tags prefer
PreferredKinds ==
    {k \in {"STYLE", "CONTENT", "CHARACTER"} : Includes(tags, <<k, "REF">>)}

\* the rows of the capability table that support a preferred kind, the whole
\* table when no row does
Candidates ==
    LET table == Range(MODEL_CAPABILITIES)
        supporting == {m \in table :
                          Range(m.supportedGuidanceTypes) \cap PreferredKinds # {}}
    IN  IF supporting = {} THEN table ELSE supporting

\* C10: with no reference image, no IMAGE EDIT marker and no LONG or SHORT
\* text marker the result is the lowest-rank model among the candidates, with
\* no guidance recommendation.
C10_LowestRankCandidate ==
    (Called /\ refCount = 0 /\ ~HasEdit /\ ~HasLong /\ ~HasShort) =>
        /\ Candidates # {}
        /\ \E m \in Candidates :
              /\ \A o \in Candidates : m.rank <= o.rank
              /\ selResult = Result(m.name, Undefined)

C10_Witness ==
    /\ Called /\ refCount = 0 /\ ~HasEdit /\ ~HasLong /\ ~HasShort
    /\ PreferredKinds = {"CHARACTER"}
    /\ selResult.selectedModel = "Leonardo Phoenix 1.0"

\* the tags ask for rendered text with the generic marker only
HasGenericText == Includes(tags, <<"NEEDS", "TEXT">>) /\ ~HasLong /\ ~HasShort

\* the contents of the quoted substrings of p: the runs between two
\* consecutive quote tokens of the same kind
QuotedContents(p) ==
    { SubSeq(p, a + 1, b - 1) :
        <<a, b>> \in { ab \in (1..Len(p)) \X (1..Len(p)) :
                          /\ ab[1] < ab[2]
                          /\ p[ab[1]] \in {DQ, SQ}
                          /\ p[ab[2]] = p[ab[1]]
                          /\ \A k \in (ab[1] + 1)..(ab[2] - 1) : p[k] # p[ab[1]] } }

LongEvidence(p) ==
    \/ \E c \in QuotedContents(p) : Len(c) >= 3
    \/ \E i \in 1..Len(p) : p[i] = "story"

ShortEvidence(p) == \E c \in QuotedContents(p) : Len(c) >= 1 /\ Len(c) <= 2

\* C11: with no reference image, no IMAGE EDIT marker and the generic NEEDS
\* TEXT marker only, a prompt with a quoted substring of 3 or more words or a
\* long-text keyword selects Leonardo Phoenix 1.0, a prompt whose only evidence
\* is a quoted substring of at most 2 words selects Lucid Origin, and a prompt
\* without evidence selects Lucid Origin.
C11_GenericTextByEvidence ==
    (Called /\ refCount = 0 /\ ~HasEdit /\ HasGenericText) =>
        /\ (LongEvidence(origPrompt) /\ ~ShortEvidence(origPrompt)) =>
               selResult.selectedModel = "Leonardo Phoenix 1.0"
        /\ (ShortEvidence(origPrompt) /\ ~LongEvidence(origPrompt)) =>
               selResult.selectedModel = "Lucid Origin"
        /\ (~ShortEvidence(origPrompt) /\ ~LongEvidence(origPrompt)) =>
               selResult.selectedModel = "Lucid Origin"

----------------------------------------------------------------------------
(* Properties of the generation jobs *)

Listed(jobs, id) == \E i \in 1..Len(jobs) : jobs[i].id = id

Rec(jobs, id) == jobs[CHOOSE i \in 1..Len(jobs) : jobs[i].id = id]

StatusChanges ==
    { <<"enhancing", "loading">>, <<"loading", "completed">>, <<"loading", "error">> }

\* C1: a job created by handleGenerate starts in 'enhancing' exactly when the
\* selected model is 'Auto' or the enhancement toggle is on, and in 'loading'
\* otherwise; its status changes only by enhancing -> loading,
\* loading -> completed and loading -> error, so a completed or failed job
\* keeps its status.
C1_StatusMachine ==
    [][ /\ \A i \in 1..Len(generationJobs) :
              LET job == generationJobs[i]
              IN  (~job.isPrevious /\ Listed(generationJobs', job.id)) =>
                     \/ Rec(generationJobs', job.id).status = job.status
                     \/ <<job.status, Rec(generationJobs', job.id).status>> \in StatusChanges
        /\ Len(tasks') > Len(tasks) =>
              LET n == Len(tasks')
              IN  /\ Listed(generationJobs', JobId(n))
                  /\ Rec(generationJobs', JobId(n)).status =
                        IF tasks'[n].selectedModel = "Auto" \/ tasks'[n].geminiEnhanceEnabled
                        THEN "enhancing" ELSE "loading" ]_vars

C1_Witness ==
    \E j \in 1..Len(tasks) :
        /\ tasks[j].selectedModel # "Auto" /\ tasks[j].geminiEnhanceEnabled
        /\ Listed(generationJobs, JobId(j))
        /\ Rec(generationJobs, JobId(j)).status = "completed"
        /\ Rec(generationJobs, JobId(j)).enhancedPrompt # <<>>

\* C2: once the background task of a job has run to its end, the job is in
\* status 'completed' or 'error', whatever the final reply of the backend.
C2_FinishedTaskIsTerminal ==
    \A j \in 1..Len(tasks) :
        (tasks[j].pc = "done" /\ Listed(generationJobs, JobId(j))) =>
            Rec(generationJobs, JobId(j)).status \in {"completed", "error"}

\* C3: a job handleGenerate has inserted stays in the list in every later
\* state unless it is removed while its status is 'error'.
C3_JobStaysListed ==
    [][ \A i \in 1..Len(generationJobs) :
            LET job == generationJobs[i]
            IN  ~job.isPrevious =>
                   \/ Listed(generationJobs', job.id)
                   \/ job.status = "error" ]_vars

\* t is raw without its leading and trailing white space
IsTrimOf(t, raw) ==
    \E a, b \in 0..Len(raw) :
        /\ a + b <= Len(raw)
        /\ t = SubSeq(raw, a + 1, Len(raw) - b)
        /\ \A i \in 1..a : raw[i] = WS
        /\ \A i \in (Len(raw) - b + 1)..Len(raw) : raw[i] = WS
        /\ t # <<>> => (t[1] # WS /\ t[Len(t)] # WS)

\* the step in which the task of job j leaves its wait for the enhancer
\* without an enhanced prompt
EnhancementFailed(j) ==
    /\ tasks[j].pc = "enhance"
    /\ tasks'[j].pc # "enhance"
    /\ Listed(generationJobs', JobId(j))
    /\ Rec(generationJobs', JobId(j)).enhancedPrompt = <<>>

\* C4: when the enhancement of a job fails the job goes to 'loading', the
\* request sent carries the trimmed original prompt, and its model is
\* 'Lucid Origin' for an Auto job and the selected model otherwise.
C4_EnhanceFailureFallsBack ==
    [][ \A j \in 1..Len(tasks) :
            EnhancementFailed(j) =>
               /\ Rec(generationJobs', JobId(j)).status = "loading"
               /\ tasks'[j].pc = "submit"
               /\ tasks'[j].payload # <<>>
               /\ IsTrimOf(tasks'[j].payload[1].prompt, tasks[j].prompt)
               /\ tasks'[j].payload[1].model =
                     IF tasks[j].selectedModel = "Auto" THEN "Lucid Origin"
                     ELSE tasks[j].selectedModel ]_vars

C4_Witness ==
    \E j \in 1..Len(tasks) :
        /\ tasks[j].selectedModel = "Auto"
        /\ tasks[j].pc = "poll"
        /\ tasks[j].payload = <<Payload(<<"cat">>, "Lucid Origin", tasks[j])>>
        /\ Listed(generationJobs, JobId(j))
        /\ Rec(generationJobs, JobId(j)).enhancedPrompt = <<>>
        /\ Rec(generationJobs, JobId(j)).status = "loading"

\* the replies that report or are a backend failure
FailedSubmits == {"notOk", "noId"}

FailedPolls ==
    { PollReply("pk", "FAILED", 0), PollReply("noPk", Undefined, 0),
      PollReply("pk", Undefined, 0) }

\* C5: every backend failure during submit or poll (a non-OK submit reply, a
\* submit reply without generation id, a poll status FAILED, a malformed poll
\* reply) ends the job in status 'error' with an error message.
C5_BackendFailureIsError ==
    [][ \A j \in 1..Len(tasks) :
            ( /\ Listed(generationJobs, JobId(j))
              /\ \/ \E r \in FailedSubmits : SubmitReturn(j, r)
                 \/ \E r \in FailedPolls : PollReturn(j, r) ) =>
               /\ Rec(generationJobs', JobId(j)).status = "error"
               /\ Rec(generationJobs', JobId(j)).error # Undefined ]_vars

\* C6: a step of the background task of job j changes no record but the one
\* with j's id and leaves the order of the records as it was.
C6_UpdatesOwnRecordOnly ==
    [][ \A j \in 1..Len(tasks) :
            tasks'[j] # tasks[j] =>
               /\ Len(generationJobs') = Len(generationJobs)
               /\ \A i \in 1..Len(generationJobs) :
                     /\ generationJobs'[i].id = generationJobs[i].id
                     /\ generationJobs[i].id # JobId(j) =>
                           generationJobs'[i] = generationJobs[i] ]_vars

C6_Witness ==
    /\ Len(tasks) >= 2
    /\ Listed(generationJobs, JobId(1)) /\ Listed(generationJobs, JobId(2))
    /\ Rec(generationJobs, JobId(1)).status = "loading"
    /\ Rec(generationJobs, JobId(2)).status = "error"
    /\ tasks[1].pc = "poll"
    /\ \E i \in 1..Len(generationJobs) : generationJobs[i].isPrevious

\* the models the registry declares for image generation and image edit
DeclaredModels ==
    Range(getModelsForNodeType("image-generation"))
    \cup Range(getModelsForNodeType("image-edit"))

\* C12: when the enhancer call of an Auto job returns, the model handed back
\* is the selector's choice if the registry declares it and 'Lucid Origin'
\* otherwise, so it is always a declared model or 'Lucid Origin'; the task
\* goes on to the submit and the job is not put in 'error'.
C12_ValidatedModel ==
    [][ \A j \in 1..Len(tasks) :
            ( /\ tasks[j].selectedModel = "Auto"
              /\ \E u \in UpdatedPrompts, r \in Recommendations : EnhanceReturn(j, u, r) ) =>
               /\ tasks'[j].actualModelToUse \in DeclaredModels \cup {"Lucid Origin"}
               /\ tasks'[j].autoSelected \notin DeclaredModels =>
                     tasks'[j].actualModelToUse = "Lucid Origin"
               /\ tasks'[j].autoSelected \in DeclaredModels =>
                     tasks'[j].actualModelToUse = tasks'[j].autoSelected
               /\ tasks'[j].pc = "submit"
               /\ Listed(generationJobs, JobId(j)) =>
                     Rec(generationJobs', JobId(j)).status = "loading" ]_vars

C12_Witness ==
    \E j \in 1..Len(tasks) :
        /\ tasks[j].selectedModel = "Auto"
        /\ tasks[j].pc = "submit"
        /\ tasks[j].autoSelected = "Leonardo Phoenix 1.0"
        /\ tasks[j].autoSelected \notin DeclaredModels
        /\ tasks[j].actualModelToUse = "Lucid Origin"
        /\ tasks[j].payload = <<Payload(tasks[j].promptToSend, "Lucid Origin", tasks[j])>>

\* C13: an Auto job keeps model 'Auto', and while its status is 'loading' or
\* 'completed' its actualModel is set and is the model of the request built
\* for the backend: the validated choice of the selector, or 'Lucid Origin'
\* when the enhancement failed.
C13_ActualModelIsRequested ==
    \A j \in 1..Len(tasks) :
        (tasks[j].selectedModel = "Auto" /\ Listed(generationJobs, JobId(j))) =>
            LET job == Rec(generationJobs, JobId(j))
            IN  /\ job.model = "Auto"
                /\ job.status \in {"loading", "completed"} =>
                      /\ job.actualModel # Undefined
                      /\ tasks[j].payload # <<>>
                      /\ job.actualModel = tasks[j].payload[1].model
                      /\ job.actualModel =
                            IF job.enhancedPrompt = <<>> THEN "Lucid Origin"
                            ELSE IF tasks[j].autoSelected \in DeclaredModels
                            THEN tasks[j].autoSelected ELSE "Lucid Origin"

C13_Witness ==
    \E j \in 1..Len(tasks) :
        /\ tasks[j].selectedModel = "Auto"
        /\ Listed(generationJobs, JobId(j))
        /\ Rec(generationJobs, JobId(j)).status = "completed"
        /\ Rec(generationJobs, JobId(j)).model = "Auto"
        /\ Rec(generationJobs, JobId(j)).actualModel = "Leonardo Phoenix 1.0"
        /\ tasks[j].payload[1].model = "Leonardo Phoenix 1.0"

----------------------------------------------------------------------------
(* Workflow graph: the node type registry (types.ts) *)

MaxNodes == 2
MaxConnections == 1
MaxNumImages == 2
MaxUploads == 1

\* a ConnectorDefinition; count 0 stands for an absent count
Connector(name, type, count) == [name |-> name, type |-> type, count |-> count]

NODE_TYPES ==
    [ t \in {"input-text", "input-image", "input-video", "image-generation",
             "text-to-video", "image-to-video", "image-edit"} |->
        CASE t = "input-text" ->
               [name |-> "Text", category |-> "Inputs",
                inputs |-> <<>>,
                outputs |-> <<Connector("Text", "text", 0)>>,
                defaultSettings |->
                    [text |-> "", exposeAsInput |-> FALSE, instructions |-> ""]]
          [] t = "input-image" ->
               [name |-> "Image", category |-> "Inputs",
                inputs |-> <<>>,
                outputs |-> <<Connector("Image", "image", 0)>>,
                defaultSettings |->
                    [src |-> "", fileName |-> "", mediaId |-> "null",
                     exposeAsInput |-> FALSE, instructions |-> ""]]
          [] t = "input-video" ->
               [name |-> "Video", category |-> "Inputs",
                inputs |-> <<>>,
                outputs |-> <<Connector("Video", "video", 0)>>,
                defaultSettings |->
                    [src |-> "", fileName |-> "", exposeAsInput |-> FALSE,
                     instructions |-> ""]]
          [] t = "image-generation" ->
               [name |-> "Image Generation", category |-> "Primary Nodes",
                inputs |-> << Connector("Prompt", "text", 0),
                              Connector("Negative Prompt", "text", 0),
                              Connector("Style Reference", "image", 4),
                              Connector("Character Reference", "image", 1) >>,
                outputs |-> <<Connector("Image", "image", 0)>>,
                defaultSettings |->
                    [model |-> "Leonardo Diffusion XL", style |-> "Dynamic",
                     numImages |-> 1, aspectRatio |-> "1:1", seed |-> "",
                     contrast |-> "1.0", guidance |-> <<>>]]
          [] t = "text-to-video" ->
               [name |-> "Text to Video", category |-> "Primary Nodes",
                inputs |-> << Connector("Prompt", "text", 0),
                              Connector("Negative Prompt", "text", 0) >>,
                outputs |-> <<Connector("Video", "video", 0)>>,
                defaultSettings |->
                    [model |-> "MOTION2", resolution |-> "RESOLUTION_480",
                     frameInterpolation |-> FALSE, promptEnhance |-> FALSE]]
          [] t = "image-to-video" ->
               [name |-> "Image to Video (Motion)", category |-> "Primary Nodes",
                inputs |-> <<Connector("Image", "image", 0)>>,
                outputs |-> <<Connector("Video", "video", 0)>>,
                defaultSettings |-> [motionStrength |-> 5]]
          [] t = "image-edit" ->
               [name |-> "Image Edit", category |-> "Primary Nodes",
                inputs |-> << Connector("Prompt", "text", 0),
                              Connector("Image to Edit", "image", 0) >>,
                outputs |-> <<Connector("Image", "image", 0)>>,
                defaultSettings |->
                    [model |-> "FLUX.1 Kontext", strength |-> "0.6", seed |-> ""]] ]

\* a connector name: the name of the definition and the number of the slot or
\* of the output, 0 for a connector without number.  It stands for the string
\* `${name} ${index}`, or name alone.
ConnectorName(name, index) == <<name, index>>

\* { nodeId, connectorName }
Point(nodeId, connectorName) == [nodeId |-> nodeId, connectorName |-> connectorName]

HasNode(ns, id) == \E i \in 1..Len(ns) : ns[i].id = id

NodeOf(ns, id) == ns[CHOOSE i \in 1..Len(ns) : ns[i].id = id]

\* settings[key], Undefined for an absent key
Setting(settings, key) == IF key \in DOMAIN settings THEN settings[key] ELSE Undefined

\* { ...a, ...b }
Merge(a, b) ==
    [k \in DOMAIN a \cup DOMAIN b |-> IF k \in DOMAIN b THEN b[k] ELSE a[k]]

\* getModelGuidanceSupport of modelConfig: the guidance inputs the model
\* supports, by the table of getImageGuidanceConfig
getModelGuidanceSupport(model) ==
    (IF "styleRef" \in getImageGuidanceConfig(model) THEN {"Style Reference"} ELSE {})
    \cup (IF "charRef" \in getImageGuidanceConfig(model)
          THEN {"Character Reference"} ELSE {})

----------------------------------------------------------------------------
(* NodeComponent.tsx: the connectors a node renders *)

\* node.exposedConnectors?.[input.name] || 1
ExposedCount(node, name) ==
    IF name \in DOMAIN node.exposedConnectors /\ node.exposedConnectors[name] # 0
    THEN node.exposedConnectors[name] ELSE 1

\* isDisabledByModel of the inputs column
IsDisabledByModel(node, input) ==
    /\ input.name \in {"Style Reference", "Character Reference"}
    /\ ~( /\ node.typeKey = "image-generation"
          /\ input.name \in getModelGuidanceSupport(Setting(node.settings, "model")) )

IsMultiInput(input) == input.count > 1

\* the connectors of the inputs column: the name, the definition and the
\* isDisabledOverride of each renderConnector call
InputConnectors(node) ==
    LET inputs == NODE_TYPES[node.typeKey].inputs
    IN  UNION { IF ~IsMultiInput(inputs[i])
                THEN { [connectorName |-> ConnectorName(inputs[i].name, 0),
                        def |-> inputs[i],
                        disabledOverride |-> IsDisabledByModel(node, inputs[i])] }
                ELSE { [connectorName |-> ConnectorName(inputs[i].name, k),
                        def |-> inputs[i],
                        disabledOverride |-> IsDisabledByModel(node, inputs[i])] :
                       k \in 1..ExposedCount(node, inputs[i].name) } :
              i \in 1..Len(inputs) }

\* a plausible slip: the button is shown up to and including the declared count
ShowPlusButton_AtLimit(node, input) ==
    IsMultiInput(input) /\ ExposedCount(node, input.name) <= input.count

\* showPlusButton of the inputs column
ShowPlusButton(node, input) ==
    IsMultiInput(input) /\ ExposedCount(node, input.name) < input.count

\* a plausible slip: the declared outputs are rendered whatever numImages is
NumOutputsToRender_Declared(node) == Len(NODE_TYPES[node.typeKey].outputs)

\* numOutputsToRender of the outputs column; numImages || 1
NumOutputsToRender(node) ==
    IF node.typeKey = "image-generation"
    THEN (IF "numImages" \notin DOMAIN node.settings THEN 1
          ELSE IF node.settings.numImages = 0 THEN 1
          ELSE node.settings.numImages)
    ELSE Len(NODE_TYPES[node.typeKey].outputs)

\* the connectors of the outputs column
OutputConnectors(node) ==
    LET outputs == NODE_TYPES[node.typeKey].outputs
        n == NumOutputsToRender(node)
    IN  IF outputs = <<>> THEN {}
        ELSE { [connectorName |-> ConnectorName(outputs[1].name, IF n > 1 THEN i ELSE 0),
                def |-> outputs[1],
                disabledOverride |-> FALSE] : i \in 1..n }

\* the connectors the node renders for one side
Connectors(node, type) ==
    IF type = "input" THEN InputConnectors(node) ELSE OutputConnectors(node)

\* a plausible slip: the test of the data type left out
IsDisabled_NoTypeCheck(node, connectorDef, type, isDisabledOverride) ==
    IF draggingConnectionInfo # <<>>
    THEN \/ node.id = draggingConnectionInfo[1].nodeId
         \/ draggingConnectionInfo[1].type = type
    ELSE isDisabledOverride

\* a plausible slip: the test of the node left out
IsDisabled_NoSelfCheck(node, connectorDef, type, isDisabledOverride) ==
    IF draggingConnectionInfo # <<>>
    THEN \/ connectorDef.type # draggingConnectionInfo[1].dataType
         \/ draggingConnectionInfo[1].type = type
    ELSE isDisabledOverride

\* isDisabled of renderConnector
IsDisabled(node, connectorDef, type, isDisabledOverride) ==
    IF draggingConnectionInfo # <<>>
    THEN \/ node.id = draggingConnectionInfo[1].nodeId
         \/ connectorDef.type # draggingConnectionInfo[1].dataType
         \/ draggingConnectionInfo[1].type = type
    ELSE isDisabledOverride

----------------------------------------------------------------------------
(* NodeMenu.tsx *)

\* type.name.toLowerCase().includes(filter.toLowerCase()) for the search texts
\* "", "image" and "video"
NameIncludes(typeKey, filter) ==
    CASE filter = "" -> TRUE
      [] filter = "image" ->
            typeKey \in {"input-image", "image-generation", "image-to-video", "image-edit"}
      [] filter = "video" ->
            typeKey \in {"input-video", "text-to-video", "image-to-video"}
      [] OTHER -> FALSE

\* a plausible slip: the two directions exchanged
groupedNodeTypes_SameDirection(filter, filterType, sourceConnectorType, initialCategory) ==
    LET allNodes == DOMAIN NODE_TYPES
        primary ==
            IF initialCategory # Undefined
            THEN {t \in allNodes : NODE_TYPES[t].category = initialCategory}
            ELSE IF filterType # Undefined
            THEN IF sourceConnectorType = "input"
                 THEN {t \in allNodes :
                          \E i \in 1..Len(NODE_TYPES[t].inputs) :
                              NODE_TYPES[t].inputs[i].type = filterType}
                 ELSE {t \in allNodes :
                          \E i \in 1..Len(NODE_TYPES[t].outputs) :
                              NODE_TYPES[t].outputs[i].type = filterType}
            ELSE allNodes
    IN  {t \in primary : NameIncludes(t, filter)}

\* groupedNodeTypes: the type keys the menu offers (their grouping by category
\* and their order are not modelled)
groupedNodeTypes(filter, filterType, sourceConnectorType, initialCategory) ==
    LET allNodes == DOMAIN NODE_TYPES
        primary ==
            IF initialCategory # Undefined
            THEN {t \in allNodes : NODE_TYPES[t].category = initialCategory}
            ELSE IF filterType # Undefined
            THEN IF sourceConnectorType = "input"
                 THEN {t \in allNodes :
                          \E i \in 1..Len(NODE_TYPES[t].outputs) :
                              NODE_TYPES[t].outputs[i].type = filterType}
                 ELSE {t \in allNodes :
                          \E i \in 1..Len(NODE_TYPES[t].inputs) :
                              NODE_TYPES[t].inputs[i].type = filterType}
            ELSE allNodes
    IN  {t \in primary : NameIncludes(t, filter)}

----------------------------------------------------------------------------
(* The Graph Model: the operations of the owner of nodes and connections    *)

\* the kind of the connector a point names on the side type, Undefined when
\* the node or the connector does not exist
KindOf(ns, point, type) ==
    IF ~HasNode(ns, point.nodeId) THEN Undefined
    ELSE LET found == {c \in Connectors(NodeOf(ns, point.nodeId), type) :
                          c.connectorName = point.connectorName}
         IN  IF found = {} THEN Undefined ELSE (CHOOSE c \in found : TRUE).def.type

\* the definition of the input a point names
InputDef(ns, point) ==
    (CHOOSE c \in InputConnectors(NodeOf(ns, point.nodeId)) :
        c.connectorName = point.connectorName).def

\* addNode(typeKey): the node created with the id given
NewNode(id, typeKey) ==
    [id |-> id,
     typeKey |-> typeKey,
     settings |-> NODE_TYPES[typeKey].defaultSettings,
     exposedConnectors |-> [n \in {} |-> 0],
     status |-> "idle"]

\* exposedSlotCounts[portName] set to count on node nodeId
SetExposed(ns, nodeId, portName, count) ==
    [i \in 1..Len(ns) |->
        IF ns[i].id = nodeId
        THEN [ns[i] EXCEPT !.exposedConnectors =
                 [n \in DOMAIN ns[i].exposedConnectors \cup {portName} |->
                     IF n = portName THEN count ELSE ns[i].exposedConnectors[n]]]
        ELSE ns[i]]

\* addConnection(from, to) on the graph ns, cs: the checks in the order
\* existence, kind match, no self-loop, replacement on a single input, slot
\* bound; filling the last exposed slot exposes one more up to the count
addConnection(ns, cs, from, to) ==
    LET fromKind == KindOf(ns, from, "output")
        toKind == KindOf(ns, to, "input")
    IN  IF fromKind = Undefined \/ toKind = Undefined
        THEN [nodes |-> ns, connections |-> cs, error |-> "InvalidConnection: existence"]
        ELSE IF fromKind # toKind
        THEN [nodes |-> ns, connections |-> cs, error |-> "InvalidConnection: kind"]
        ELSE IF from.nodeId = to.nodeId
        THEN [nodes |-> ns, connections |-> cs, error |-> "InvalidConnection: self"]
        ELSE LET def == InputDef(ns, to)
                 node == NodeOf(ns, to.nodeId)
                 slot == to.connectorName[2]
                 new == [from |-> from, to |-> to, dataType |-> fromKind]
             IN  IF ~IsMultiInput(def)
                 THEN [nodes |-> ns,
                       connections |-> {c \in cs : c.to # to} \cup {new},
                       error |-> Undefined]
                 ELSE IF slot > ExposedCount(node, def.name)
                 THEN [nodes |-> ns, connections |-> cs,
                       error |-> "InvalidConnection: slot"]
                 ELSE [nodes |->
                          IF slot = ExposedCount(node, def.name)
                          THEN SetExposed(ns, node.id, def.name,
                                          Min(def.count, ExposedCount(node, def.name) + 1))
                          ELSE ns,
                       connections |-> cs \cup {new},
                       error |-> Undefined]

\* exposeMoreSlots(nodeId, portName)
exposeMoreSlots(ns, nodeId, portName) ==
    LET node == NodeOf(ns, nodeId)
        def == CHOOSE d \in Range(NODE_TYPES[node.typeKey].inputs) : d.name = portName
    IN  IF ExposedCount(node, portName) < def.count
        THEN [nodes |-> SetExposed(ns, nodeId, portName, ExposedCount(node, portName) + 1),
              error |-> Undefined]
        ELSE [nodes |-> ns, error |-> "SlotLimitReached"]

\* updateSettings(nodeId, partialSettings): a shallow merge; no effect for a
\* node that does not exist
updateSettings(ns, nodeId, partialSettings) ==
    [i \in 1..Len(ns) |->
        IF ns[i].id = nodeId
        THEN [ns[i] EXCEPT !.settings = Merge(ns[i].settings, partialSettings)]
        ELSE ns[i]]

\* deleteNode(nodeId): the nodes left
RemoveNode(ns, nodeId) == SelectSeq(ns, LAMBDA n : n.id # nodeId)

\* the start point onConnectorMouseDown records for the gesture
onConnectorMouseDown(ns, from, type) ==
    [nodeId |-> from.nodeId, connectorName |-> from.connectorName,
     type |-> type, dataType |-> KindOf(ns, from, type)]

----------------------------------------------------------------------------
(* Editing the graph *)

\* no gesture in progress and no menu open
Quiet == draggingConnectionInfo = <<>> /\ nodeMenu = <<>>

\* the connector named connectorName that node renders on the side type takes
\* mouse events: (e) => !isDisabled && handler(...)
Enabled(node, connectorName, type) ==
    \E c \in Connectors(node, type) :
        /\ c.connectorName = connectorName
        /\ ~IsDisabled(node, c.def, type, c.disabledOverride)

\* addNode(typeKey)
AddNode(typeKey) ==
    /\ Quiet
    /\ nextNodeId < MaxNodes
    /\ nodes' = Append(nodes, NewNode(nextNodeId + 1, typeKey))
    /\ nextNodeId' = nextNodeId + 1
    /\ graphError' = Undefined
    /\ UNCHANGED <<connections, draggingConnectionInfo, nodeMenu, uploads, run,
                   selVars, jobVars>>

\* the delete button of the node header: deleteNode(nodeId), with its cascade
deleteNode(nodeId) ==
    /\ Quiet
    /\ run.phase = "idle"
    /\ HasNode(nodes, nodeId)
    /\ nodes' = RemoveNode(nodes, nodeId)
    /\ connections' = {c \in connections :
                          c.from.nodeId # nodeId /\ c.to.nodeId # nodeId}
    /\ graphError' = Undefined
    /\ UNCHANGED <<nextNodeId, draggingConnectionInfo, nodeMenu, uploads, run,
                   selVars, jobVars>>

\* onMouseDown of a connector: the gesture starts
ConnectorMouseDown(nodeId, connectorName, type) ==
    /\ Quiet
    /\ HasNode(nodes, nodeId)
    /\ Enabled(NodeOf(nodes, nodeId), connectorName, type)
    /\ draggingConnectionInfo' =
          <<onConnectorMouseDown(nodes, Point(nodeId, connectorName), type)>>
    /\ UNCHANGED <<nodes, nextNodeId, connections, nodeMenu, uploads, graphError,
                   run, selVars, jobVars>>

\* onMouseUp of a connector while a connection is dragged: the gesture ends
\* on the connector and the connection is added
ConnectorMouseUp(nodeId, connectorName, type) ==
    /\ draggingConnectionInfo # <<>>
    /\ nodeMenu = <<>>
    /\ HasNode(nodes, nodeId)
    /\ Enabled(NodeOf(nodes, nodeId), connectorName, type)
    /\ LET d == draggingConnectionInfo[1]
           start == Point(d.nodeId, d.connectorName)
           here == Point(nodeId, connectorName)
           r == IF d.type = "output"
                THEN addConnection(nodes, connections, start, here)
                ELSE addConnection(nodes, connections, here, start)
       IN  /\ nodes' = r.nodes
           /\ connections' = r.connections
           /\ graphError' = r.error
    /\ draggingConnectionInfo' = <<>>
    /\ UNCHANGED <<nextNodeId, nodeMenu, uploads, run, selVars, jobVars>>

\* the mouse is released over the canvas, or over a connector that takes no
\* events, while a connection is dragged: the node menu opens for the kind
\* and the side of the start point
CanvasMouseUp ==
    /\ draggingConnectionInfo # <<>>
    /\ nodeMenu = <<>>
    /\ nodeMenu' = << [filterType |-> draggingConnectionInfo[1].dataType,
                       sourceConnectorType |-> draggingConnectionInfo[1].type] >>
    /\ UNCHANGED <<nodes, nextNodeId, connections, draggingConnectionInfo, uploads,
                   graphError, run, selVars, jobVars>>

\* the first connector of the kind on the side type of a node of type typeKey
FirstConnector(typeKey, type, kind) ==
    LET defs == IF type = "input" THEN NODE_TYPES[typeKey].inputs
                ELSE NODE_TYPES[typeKey].outputs
        first == {i \in 1..Len(defs) :
                    /\ defs[i].type = kind
                    /\ \A k \in 1..(i - 1) : defs[k].type # kind}
    IN  IF first = {} THEN ConnectorName("", 0)
        ELSE LET i == CHOOSE i \in first : TRUE
             IN  ConnectorName(defs[i].name, IF IsMultiInput(defs[i]) THEN 1 ELSE 0)

\* onSelect of the node menu opened by a gesture: the node is added and
\* connected to the start point of the gesture
MenuSelect(typeKey, filter) ==
    /\ nodeMenu # <<>>
    /\ nextNodeId < MaxNodes
    /\ typeKey \in groupedNodeTypes(filter, nodeMenu[1].filterType,
                                    nodeMenu[1].sourceConnectorType, Undefined)
    /\ LET d == draggingConnectionInfo[1]
           id == nextNodeId + 1
           added == Append(nodes, NewNode(id, typeKey))
           start == Point(d.nodeId, d.connectorName)
           r == IF d.type = "output"
                THEN addConnection(added, connections, start,
                                   Point(id, FirstConnector(typeKey, "input", d.dataType)))
                ELSE addConnection(added, connections,
                                   Point(id, FirstConnector(typeKey, "output", d.dataType)),
                                   start)
       IN  /\ nodes' = r.nodes
           /\ connections' = r.connections
           /\ graphError' = r.error
    /\ nextNodeId' = nextNodeId + 1
    /\ nodeMenu' = <<>>
    /\ draggingConnectionInfo' = <<>>
    /\ UNCHANGED <<uploads, run, selVars, jobVars>>

\* onClose of the node menu
MenuClose ==
    /\ nodeMenu # <<>>
    /\ nodeMenu' = <<>>
    /\ draggingConnectionInfo' = <<>>
    /\ UNCHANGED <<nodes, nextNodeId, connections, uploads, graphError, run,
                   selVars, jobVars>>

\* the + button of a multi-input port
ExposeMoreClick(nodeId, inputName) ==
    /\ Quiet
    /\ HasNode(nodes, nodeId)
    /\ LET node == NodeOf(nodes, nodeId)
       IN  /\ \E input \in Range(NODE_TYPES[node.typeKey].inputs) :
                 /\ input.name = inputName
                 /\ ShowPlusButton(node, input)
                 /\ ~IsDisabledByModel(node, input)
           /\ LET r == exposeMoreSlots(nodes, nodeId, inputName)
              IN  /\ nodes' = r.nodes
                  /\ graphError' = r.error
    /\ UNCHANGED <<nextNodeId, connections, draggingConnectionInfo, nodeMenu,
                   uploads, run, selVars, jobVars>>

----------------------------------------------------------------------------
(* Sidebar.tsx: settings *)

\* handleSettingsChange(nodeId, newSettings) of a render whose selectedNodes
\* prop is selectedNodes, on the graph ns
handleSettingsChange(selectedNodes, ns, nodeId, newSettings) ==
    IF \E i \in 1..Len(selectedNodes) : selectedNodes[i].id = nodeId
    THEN LET node == NodeOf(selectedNodes, nodeId)
         IN  updateSettings(ns, node.id, Merge(node.settings, newSettings))
    ELSE ns

\* handleBulkSettingsChange(newSettings)
RECURSIVE handleBulkSettingsChange(_, _, _)
handleBulkSettingsChange(selectedNodes, ns, newSettings) ==
    IF selectedNodes = <<>> THEN ns
    ELSE handleBulkSettingsChange(Tail(selectedNodes),
            updateSettings(ns, Head(selectedNodes).id,
                           Merge(Head(selectedNodes).settings, newSettings)),
            newSettings)

\* the models of the model selector of an image-generation node
NodeModels == {"Leonardo Diffusion XL", "Lucid Realism"}

\* the partial settings the controls of the single-node panel produce
SingleEdits(node) ==
    CASE node.typeKey = "image-generation" ->
            {[numImages |-> k] : k \in 1..MaxNumImages}
            \cup {[model |-> m] : m \in NodeModels}
      [] node.typeKey = "input-image" -> {[exposeAsInput |-> b] : b \in BOOLEAN}
      [] node.typeKey = "text-to-video" ->
            {[resolution |-> r] : r \in {"RESOLUTION_480", "RESOLUTION_720"}}
      [] OTHER -> {}

\* the partial settings the controls of the bulk panel produce
BulkEdits ==
    {[numImages |-> k] : k \in 1..Min(4, MaxNumImages)}
    \cup {[model |-> m] : m \in NodeModels}

\* what an upload hands back
FileSettings == [src |-> "url", fileName |-> "file", mediaId |-> "media"]

\* a control of the panel of the one selected node
EditSettings(nodeId, newSettings) ==
    /\ Quiet
    /\ HasNode(nodes, nodeId)
    /\ newSettings \in SingleEdits(NodeOf(nodes, nodeId))
    /\ nodes' = handleSettingsChange(<<NodeOf(nodes, nodeId)>>, nodes, nodeId, newSettings)
    /\ UNCHANGED <<nextNodeId, connections, draggingConnectionInfo, nodeMenu,
                   uploads, graphError, run, selVars, jobVars>>

\* a control of the bulk panel: several nodes selected, all image-generation
BulkEditSettings(selectedIds, newSettings) ==
    /\ Quiet
    /\ Cardinality(selectedIds) > 1
    /\ \A id \in selectedIds :
          HasNode(nodes, id) /\ NodeOf(nodes, id).typeKey = "image-generation"
    /\ newSettings \in BulkEdits
    /\ nodes' = handleBulkSettingsChange(
                   SelectSeq(nodes, LAMBDA n : n.id \in selectedIds), nodes, newSettings)
    /\ UNCHANGED <<nextNodeId, connections, draggingConnectionInfo, nodeMenu,
                   uploads, graphError, run, selVars, jobVars>>

\* handleFileChange of an input-image node up to its await
UploadStart(nodeId) ==
    /\ Quiet
    /\ Len(uploads) < MaxUploads
    /\ HasNode(nodes, nodeId)
    /\ NodeOf(nodes, nodeId).typeKey = "input-image"
    /\ uploads' = Append(uploads,
          [nodeId |-> nodeId, selectedNodes |-> <<NodeOf(nodes, nodeId)>>])
    /\ UNCHANGED <<nodes, nextNodeId, connections, draggingConnectionInfo, nodeMenu,
                   graphError, run, selVars, jobVars>>

\* handleFileChange after its await: onUploadFile gave a result (ok) or null
UploadReturn(i, ok) ==
    /\ i \in 1..Len(uploads)
    /\ nodes' = IF ok
                THEN handleSettingsChange(uploads[i].selectedNodes, nodes,
                                          uploads[i].nodeId, FileSettings)
                ELSE nodes
    /\ uploads' = SubSeq(uploads, 1, i - 1) \o SubSeq(uploads, i + 1, Len(uploads))
    /\ UNCHANGED <<nextNodeId, connections, draggingConnectionInfo, nodeMenu,
                   graphError, run, selVars, jobVars>>

----------------------------------------------------------------------------
(* GraphSpec: the editing of a workflow of up to MaxNodes nodes             *)

\* the node types added in the runs checked
AddableTypes == {"input-image", "image-generation", "text-to-video"}

Sides == {"input", "output"}

SearchTexts == {"", "image"}

NodeIds == 1..MaxNodes

GraphAdd == \E t \in AddableTypes : AddNode(t)

GraphMouseDown ==
    \E id \in NodeIds, type \in Sides :
        /\ HasNode(nodes, id)
        /\ \E c \in Connectors(NodeOf(nodes, id), type) :
              ConnectorMouseDown(id, c.connectorName, type)

GraphMouseUp ==
    \E id \in NodeIds, type \in Sides :
        /\ Cardinality(connections) < MaxConnections
        /\ HasNode(nodes, id)
        /\ \E c \in Connectors(NodeOf(nodes, id), type) :
              ConnectorMouseUp(id, c.connectorName, type)

GraphMenuSelect ==
    /\ Cardinality(connections) < MaxConnections
    /\ \E t \in AddableTypes, f \in SearchTexts : MenuSelect(t, f)

GraphExpose ==
    \E id \in NodeIds, name \in {"Style Reference", "Character Reference"} :
        ExposeMoreClick(id, name)

\* the numImages slider
GraphCountEdit ==
    \E id \in NodeIds, k \in 1..MaxNumImages : EditSettings(id, [numImages |-> k])

\* the model selector
GraphModelEdit ==
    \E id \in NodeIds, m \in NodeModels : EditSettings(id, [model |-> m])

GraphNext ==
    \/ GraphAdd
    \/ GraphMouseDown
    \/ GraphMouseUp
    \/ CanvasMouseUp
    \/ GraphMenuSelect
    \/ MenuClose
    \/ GraphExpose
    \/ GraphCountEdit
    \/ GraphModelEdit

GraphInit == GraphIdle /\ JobInit /\ SelIdle

GraphSpec == GraphInit /\ [][GraphNext]_vars

(* SettingsSpec: the settings panel on up to MaxNodes nodes without         *)
(* connections                                                             *)

SettingsDelete == \E id \in NodeIds : deleteNode(id)

SettingsEdit ==
    \E id \in NodeIds :
        /\ HasNode(nodes, id)
        /\ \E e \in SingleEdits(NodeOf(nodes, id)) : EditSettings(id, e)

SettingsBulkEdit == \E S \in SUBSET NodeIds, e \in BulkEdits : BulkEditSettings(S, e)

SettingsUploadStart == \E id \in NodeIds : UploadStart(id)

SettingsUploaded == \E i \in 1..Len(uploads), ok \in BOOLEAN : UploadReturn(i, ok)

SettingsNext ==
    \/ GraphAdd
    \/ SettingsDelete
    \/ SettingsEdit
    \/ SettingsBulkEdit
    \/ SettingsUploadStart
    \/ SettingsUploaded

SettingsSpec == GraphInit /\ [][SettingsNext]_vars

----------------------------------------------------------------------------
(* The Scheduler (spec.md 4.2): the order of a run, the detection of cycles
   and the sequential execution loop *)

MaxRunNodes == 3

\* the ids of the nodes in creation order
NodeIdsOf(ns) == [i \in 1..Len(ns) |-> ns[i].id]

\* the nodes a node depends on: from -> to makes to depend on from
Upstream(cs, nodeId) == {c.from.nodeId : c \in {x \in cs : x.to.nodeId = nodeId}}

\* Kahn's algorithm: the first node in creation order none of whose upstream
\* nodes remains is removed and appended to the order, until there is none
RECURSIVE Kahn(_, _, _)
Kahn(remaining, cs, order) ==
    LET ready == {i \in 1..Len(remaining) :
                    Upstream(cs, remaining[i]) \cap Range(remaining) = {}}
    IN  IF ready = {}
        THEN [order |-> order, remaining |-> remaining]
        ELSE LET i == CHOOSE k \in ready : \A m \in ready : k <= m
             IN  Kahn([k \in 1..(Len(remaining) - 1) |->
                          IF k < i THEN remaining[k] ELSE remaining[k + 1]],
                      cs, Append(order, remaining[i]))

\* a plausible slip: the nodes in creation order, whatever the connections
topologicalSort_CreationOrder(ns, cs) ==
    [order |-> NodeIdsOf(ns), remaining |-> <<>>]

\* a plausible slip: the nodes that could be ordered are run and the nodes
\* left over are dropped without a report
topologicalSort_NoCycleReport(ns, cs) ==
    [order |-> Kahn(NodeIdsOf(ns), cs, <<>>).order, remaining |-> <<>>]

\* the order of the run and the nodes left over (on or behind a cycle)
topologicalSort(ns, cs) == Kahn(NodeIdsOf(ns), cs, <<>>)

SetStatus(ns, nodeId, status) ==
    [i \in 1..Len(ns) |->
        IF ns[i].id = nodeId THEN [ns[i] EXCEPT !.status = status] ELSE ns[i]]

\* the position after pos, and the phase of the run there
Advance(r) ==
    [r EXCEPT !.pos = r.pos + 1,
              !.phase = IF r.pos + 1 > Len(r.order) THEN "done" ELSE "running"]

\* the user triggers execution: the order is computed once; with nodes left
\* over the run is aborted with CyclicGraphError before any node runs
RunStart ==
    /\ run.phase = "idle"
    /\ LET sorted == topologicalSort(nodes, connections)
       IN  IF sorted.remaining # <<>>
           THEN run' = [run EXCEPT !.phase = "aborted",
                                   !.error = "CyclicGraphError",
                                   !.cyclic = Range(sorted.remaining)]
           ELSE run' = [run EXCEPT !.phase = IF sorted.order = <<>> THEN "done"
                                             ELSE "running",
                                   !.order = sorted.order,
                                   !.pos = 1]
    /\ UNCHANGED <<nodes, nextNodeId, connections, draggingConnectionInfo, nodeMenu,
                   uploads, graphError, selVars, jobVars>>

\* the node of the run at the current position
Current == run.order[run.pos]

\* an upstream node failed or was itself blocked: the inputs are unresolved
IsBlocked(nodeId) ==
    \E u \in Upstream(connections, nodeId) :
        HasNode(nodes, u) /\ NodeOf(nodes, u).status \in {"failed", "blocked"}

\* steps 1-3 of the loop: status running, inputs resolved, the adapter called
NodeStart ==
    /\ run.phase = "running"
    /\ NodeOf(nodes, Current).status = "idle"
    /\ ~IsBlocked(Current)
    /\ nodes' = SetStatus(nodes, Current, "running")
    /\ run' = [run EXCEPT !.backendCalls = run.backendCalls + 1]
    /\ UNCHANGED <<nextNodeId, connections, draggingConnectionInfo, nodeMenu,
                   uploads, graphError, selVars, jobVars>>

\* step 5, downstream of a failure: the node is skipped and marked blocked
NodeSkip ==
    /\ run.phase = "running"
    /\ NodeOf(nodes, Current).status = "idle"
    /\ IsBlocked(Current)
    /\ nodes' = SetStatus(nodes, Current, "blocked")
    /\ run' = Advance(run)
    /\ UNCHANGED <<nextNodeId, connections, draggingConnectionInfo, nodeMenu,
                   uploads, graphError, selVars, jobVars>>

\* steps 4 and 5: the adapter returns; the run goes on in either case
NodeFinish(ok) ==
    /\ run.phase = "running"
    /\ NodeOf(nodes, Current).status = "running"
    /\ nodes' = SetStatus(nodes, Current, IF ok THEN "completed" ELSE "failed")
    /\ run' = Advance(run)
    /\ UNCHANGED <<nextNodeId, connections, draggingConnectionInfo, nodeMenu,
                   uploads, graphError, selVars, jobVars>>

\* the workflow of n Image Generation nodes in which, for every pair <<a, b>>
\* of edges, the output of a is connected to the next free Style Reference
\* slot of b
RECURSIVE Wire(_, _, _)
Wire(w, edges, k) ==
    LET n == Len(w.nodes)
        a == ((k - 1) \div n) + 1
        b == ((k - 1) % n) + 1
    IN  IF k > n * n THEN w
        ELSE IF <<a, b>> \notin edges THEN Wire(w, edges, k + 1)
        ELSE LET r == addConnection(w.nodes, w.connections,
                         Point(a, ConnectorName("Image", 0)),
                         Point(b, ConnectorName("Style Reference",
                                     ExposedCount(NodeOf(w.nodes, b), "Style Reference"))))
             IN  Wire([nodes |-> r.nodes, connections |-> r.connections], edges, k + 1)

RunInit ==
    /\ \E n \in 1..MaxRunNodes :
          \E edges \in SUBSET {e \in (1..n) \X (1..n) : e[1] # e[2]} :
              LET w == Wire([nodes |-> [i \in 1..n |-> NewNode(i, "image-generation")],
                             connections |-> {}], edges, 1)
              IN  /\ nodes = w.nodes
                  /\ connections = w.connections
                  /\ nextNodeId = n
    /\ draggingConnectionInfo = <<>>
    /\ nodeMenu = <<>>
    /\ uploads = <<>>
    /\ graphError = Undefined
    /\ run = NoRun
    /\ JobInit
    /\ SelIdle

RunFinish == \E ok \in BOOLEAN : NodeFinish(ok)

RunNext ==
    \/ RunStart
    \/ NodeStart
    \/ NodeSkip
    \/ RunFinish

RunSpec == RunInit /\ [][RunNext]_vars

----------------------------------------------------------------------------
(* Properties of the requests, checked under RequestSpec and JobSpec *)

\* C21: a handleGenerate call made without the Leonardo key, or needing
\* enhancement without the Gemini key, or with a prompt that trims to nothing,
\* leaves the job list and the background tasks (the calls of the enhancer and
\* of the backend) as they are; every other call, one that needs no
\* enhancement and has no Gemini key included, adds one job and one task.
C21_RejectedWithoutEffect ==
    [][ \A m \in SelectableModels, e \in BOOLEAN, p \in TypedPrompts :
          handleGenerate(m, e, p, 0) =>
             IF \/ apiKey = ""
                \/ (m = "Auto" \/ e) /\ geminiApiKey = ""
                \/ Trim(p) = <<>>
             THEN /\ generationJobs' = generationJobs
                  /\ tasks' = tasks
             ELSE /\ Len(generationJobs') = Len(generationJobs) + 1
                  /\ Len(tasks') = Len(tasks) + 1
                  /\ generationJobs'[1].id = JobId(Len(tasks')) ]_vars

C21_Witness ==
    /\ apiKey # ""
    /\ geminiApiKey = ""
    /\ alertMessage = NoGeminiKey
    /\ Len(tasks) = 1
    /\ Len(generationJobs) = 1
    /\ ~generationJobs[1].needsEnhancement
    /\ tasks[1].pc = "submit"

\* the key of a guidance kind in the table of getImageGuidanceConfig
KindKey(referenceTypeName) ==
    CASE referenceTypeName = "Style Reference" -> "styleRef"
      [] referenceTypeName = "Content Reference" -> "contentRef"
      [] referenceTypeName = "Character Reference" -> "charRef"
      [] OTHER -> Undefined

\* the first kind the model supports in the order STYLE, CONTENT, CHARACTER
FirstSupported(model) ==
    LET supported == getImageGuidanceConfig(model)
    IN  IF "styleRef" \in supported THEN "styleRef"
        ELSE IF "contentRef" \in supported THEN "contentRef"
        ELSE IF "charRef" \in supported THEN "charRef"
        ELSE Undefined

IsKontext(model) == model \in {"FLUX.1 Kontext", "FLUX.1 Kontext Pro"}

IsPhoenix(model) == model \in {"Leonardo Phoenix 1.0", "Leonardo Phoenix 0.9"}

\* C23: the request for a model that supports alchemy has alchemy = true and,
\* for a Phoenix model, the contrast max(user contrast, 2.5), never below
\* 2.5; for a model that does not support alchemy but supports contrast it
\* has exactly the user's contrast; for a model that supports neither it has
\* no contrast.
C23_ContrastOfRequest ==
    \A j \in 1..Len(tasks) :
        tasks[j].payload # <<>> =>
            LET request == tasks[j].payload[1]
                user == tasks[j].contrast
            IN  IF modelSupports(request.model, "alchemy")
                THEN /\ request.alchemy
                     /\ IsPhoenix(request.model) =>
                           /\ request.contrast = <<Max(user, 25)>>
                           /\ request.contrast[1] >= 25
                ELSE IF modelSupports(request.model, "contrast")
                THEN request.contrast = <<user>> /\ ~request.alchemy
                ELSE request.contrast = <<>> /\ ~request.alchemy

C23_Witness ==
    \E j \in 1..Len(tasks) :
        /\ tasks[j].payload # <<>>
        /\ tasks[j].payload[1].model = "Leonardo Phoenix 1.0"
        /\ modelSupports("Leonardo Phoenix 1.0", "alchemy")
        /\ tasks[j].contrast = 10
        /\ tasks[j].payload[1].alchemy
        /\ tasks[j].payload[1].contrast = <<25>>
        /\ tasks[j].pc = "poll"

\* C24: after any additions (several files at once included) and removals
\* of reference images, interleaved with the uploads, the list holds at most
\* 6 images.
C24_AtMostSixImages == Len(referenceImages) <= 6

\* C25: a job whose request carries reference-image descriptors
\* (contextImages or controlnets) has a referenceConfig whose count is the
\* number of descriptors, and that number is at most 6.
C25_ReferenceConfigCount ==
    \A j \in 1..Len(tasks) :
        (tasks[j].payload # <<>> /\ Listed(generationJobs, JobId(j))) =>
            LET request == tasks[j].payload[1]
                descriptors == request.contextImages + request.controlnets
                job == Rec(generationJobs, JobId(j))
            IN  descriptors > 0 =>
                   /\ job.referenceConfig # <<>>
                   /\ job.referenceConfig[1].count = descriptors
                   /\ descriptors <= 6

\* the numbers, counted from 1 in the backend's order, of the previous
\* generations in the list
FetchedNumbers ==
    {generationJobs[i].id[2] : i \in {k \in 1..Len(generationJobs) :
                                          generationJobs[k].isPrevious}}

\* C26: previous generations are fetched in contiguous pages of 10 that do
\* not overlap: a load-more in flight asks for the offset at which the
\* generations fetched so far end (10 * k for the k-th load-more after the
\* initial load of offset 0), no generation before a fetched one is missing
\* from the list, none is in the list twice, and a load-more that returns
\* nothing leaves the offset as it is.
C26_ContiguousPages ==
    /\ [] /\ moreLoad # 0 => moreLoad = Cardinality(FetchedNumbers)
          /\ \A n \in FetchedNumbers : n > 1 => (n - 1) \in FetchedNumbers
          /\ \A i, k \in 1..Len(generationJobs) :
                generationJobs[i].id = generationJobs[k].id => i = k
    /\ [][ LoadMoreReturn(0) => generationsOffset' = generationsOffset ]_vars

----------------------------------------------------------------------------
(* Properties of the graph, checked under GraphSpec and SettingsSpec *)

\* the kind the registry declares for the connector called name on the side
\* type of a node of type typeKey, Undefined if there is none
DeclaredKind(typeKey, type, name) ==
    LET defs == IF type = "input" THEN NODE_TYPES[typeKey].inputs
                ELSE NODE_TYPES[typeKey].outputs
        found == {d \in Range(defs) : d.name = name}
    IN  IF found = {} THEN Undefined ELSE (CHOOSE d \in found : TRUE).type

\* the kinds some connector on the side type of the node type has
KindsOn(typeKey, type) ==
    LET defs == IF type = "input" THEN NODE_TYPES[typeKey].inputs
                ELSE NODE_TYPES[typeKey].outputs
    IN  {d.type : d \in Range(defs)}

Opposite(type) == IF type = "input" THEN "output" ELSE "input"

Dragging == draggingConnectionInfo # <<>>

\* the connectors that take the mouse-up of the gesture in progress
Accepting ==
    { <<nodes[i], type, c>> : i \in 1..Len(nodes), type \in Sides,
                              c \in UNION {Connectors(nodes[k], t) :
                                             k \in 1..Len(nodes), t \in Sides} }

AcceptingNow ==
    { a \in Accepting : /\ a[3] \in Connectors(a[1], a[2])
                        /\ Enabled(a[1], a[3].connectorName, a[2]) }

\* C14: every connection links an output and an input of one kind; while a
\* connection is dragged from a connector of kind K the connectors that take
\* its mouse-up are of kind K; the node menu opened from a connector of kind
\* K offers only node types with a connector of kind K on the opposite side.
C14_SameKindOnly ==
    /\ \A c \in connections :
          /\ HasNode(nodes, c.from.nodeId) /\ HasNode(nodes, c.to.nodeId)
          /\ DeclaredKind(NodeOf(nodes, c.from.nodeId).typeKey, "output",
                          c.from.connectorName[1]) = c.dataType
          /\ DeclaredKind(NodeOf(nodes, c.to.nodeId).typeKey, "input",
                          c.to.connectorName[1]) = c.dataType
    /\ Dragging =>
          /\ draggingConnectionInfo[1].dataType =
                DeclaredKind(NodeOf(nodes, draggingConnectionInfo[1].nodeId).typeKey,
                             draggingConnectionInfo[1].type,
                             draggingConnectionInfo[1].connectorName[1])
          /\ nodeMenu = <<>> =>
                \A a \in AcceptingNow :
                    a[3].def.type = draggingConnectionInfo[1].dataType
    /\ nodeMenu # <<>> =>
          /\ nodeMenu[1].filterType = draggingConnectionInfo[1].dataType
          /\ \A f \in SearchTexts :
                \A t \in groupedNodeTypes(f, nodeMenu[1].filterType,
                                          nodeMenu[1].sourceConnectorType, Undefined) :
                    nodeMenu[1].filterType
                        \in KindsOn(t, Opposite(draggingConnectionInfo[1].type))

C14_Witness ==
    /\ \E c \in connections :
          /\ c.dataType = "image"
          /\ NodeOf(nodes, c.from.nodeId).typeKey = "input-image"
          /\ NodeOf(nodes, c.to.nodeId).typeKey = "image-generation"
    /\ Dragging
    /\ draggingConnectionInfo[1].type = "output"
    /\ nodeMenu # <<>>
    /\ nodeMenu[1].filterType = "image"

\* C15: no connection has one node at both ends, and while a connection is
\* dragged from a connector of node N no connector of N takes its mouse-up.
C15_NoSelfConnection ==
    /\ \A c \in connections : c.from.nodeId # c.to.nodeId
    /\ (Dragging /\ nodeMenu = <<>>) =>
          \A a \in AcceptingNow : a[1].id # draggingConnectionInfo[1].nodeId

C15_Witness ==
    /\ Dragging /\ nodeMenu = <<>>
    /\ draggingConnectionInfo[1].type = "output"
    /\ draggingConnectionInfo[1].dataType = "image"
    /\ NodeOf(nodes, draggingConnectionInfo[1].nodeId).typeKey = "image-generation"
    /\ AcceptingNow # {}
    /\ connections # {}

\* the guidance inputs that the model of their node disables
ModelDisabledInputs ==
    { <<nodes[i], c>> : i \in 1..Len(nodes),
                        c \in UNION {InputConnectors(nodes[k]) : k \in 1..Len(nodes)} }

\* C27: a guidance input of an image-generation node that the model of the
\* node does not support takes no mouse-down and no mouse-up, also while a
\* connection of its kind is dragged from another node, and no connection
\* ends on it.
C27_ModelDisabledInputRefuses ==
    /\ \A a \in ModelDisabledInputs :
          ( /\ a[2] \in InputConnectors(a[1])
            /\ a[1].typeKey = "image-generation"
            /\ a[2].disabledOverride )
          => ~Enabled(a[1], a[2].connectorName, "input")
    /\ \A c \in connections :
          \A i \in 1..Len(nodes) :
              nodes[i].id = c.to.nodeId /\ nodes[i].typeKey = "image-generation"
              => \A k \in InputConnectors(nodes[i]) :
                     k.connectorName = c.to.connectorName => ~k.disabledOverride

\* the names of the output ports an image-generation node renders when its
\* numImages is k
OutputNames(k) ==
    { c.connectorName :
        c \in OutputConnectors([NewNode(1, "image-generation")
                                  EXCEPT !.settings.numImages = k]) }

\* C28: raising numImages of an image-generation node keeps every output
\* port: the names for k are among the names for every larger value, and a
\* connection from an output port of the node still starts at a port the
\* node renders after the edit.
C28_RaisingKeepsOutputs ==
    [][ \A id \in NodeIds, k \in 1..MaxNumImages :
          ( /\ EditSettings(id, [numImages |-> k])
            /\ NodeOf(nodes, id).typeKey = "image-generation"
            /\ k > NumOutputsToRender(NodeOf(nodes, id)) )
          => /\ OutputNames(NumOutputsToRender(NodeOf(nodes, id))) \subseteq OutputNames(k)
             /\ \A c \in connections' :
                   (c \in connections /\ c.from.nodeId = id)
                   => \E o \in OutputConnectors(NodeOf(nodes', id)) :
                          o.connectorName = c.from.connectorName ]_vars

\* the multi-input ports of a node
MultiInputs(node) == {d \in Range(NODE_TYPES[node.typeKey].inputs) : IsMultiInput(d)}

\* C16: the number of exposed slots of every multi-input port is between 1
\* and the declared count; it never decreases while the node exists and grows
\* by at most one in a step; a port starts with one slot (two when the node
\* is created connected on its first slot); the + button acts only while the
\* number is below the declared count.
C16_ExposedSlots ==
    /\ [] \A i \in 1..Len(nodes) : \A d \in MultiInputs(nodes[i]) :
            /\ ExposedCount(nodes[i], d.name) \in 1..d.count
            /\ d.name \in DOMAIN nodes[i].exposedConnectors =>
                  nodes[i].exposedConnectors[d.name] \in 1..d.count
    /\ [][ /\ \A i \in 1..Len(nodes') : \A d \in MultiInputs(nodes'[i]) :
                 LET after == ExposedCount(nodes'[i], d.name)
                 IN  IF HasNode(nodes, nodes'[i].id)
                     THEN LET before == ExposedCount(NodeOf(nodes, nodes'[i].id), d.name)
                          IN  after >= before /\ after <= before + 1
                     ELSE \/ after = 1
                          \/ /\ after = 2
                             /\ \E c \in connections' \ connections :
                                   c.to = Point(nodes'[i].id, ConnectorName(d.name, 1))
           /\ \A id \in NodeIds, name \in {"Style Reference", "Character Reference"} :
                 ExposeMoreClick(id, name) =>
                    \E d \in MultiInputs(NodeOf(nodes, id)) :
                        /\ d.name = name
                        /\ ExposedCount(NodeOf(nodes, id), name) < d.count
                        /\ ExposedCount(NodeOf(nodes', id), name) =
                              ExposedCount(NodeOf(nodes, id), name) + 1 ]_vars

C16_Witness ==
    \E i \in 1..Len(nodes) :
        /\ nodes[i].typeKey = "image-generation"
        /\ ExposedCount(nodes[i], "Style Reference") = 4
        /\ \E c \in connections : c.to.nodeId = nodes[i].id
        /\ graphError = Undefined

MergedOnly(ids, partial) ==
    /\ Len(nodes') = Len(nodes)
    /\ \A i \in 1..Len(nodes) :
          /\ nodes'[i].id = nodes[i].id
          /\ IF nodes[i].id \in ids
             THEN /\ DOMAIN nodes'[i].settings = DOMAIN nodes[i].settings \cup DOMAIN partial
                  /\ \A k \in DOMAIN nodes'[i].settings :
                        nodes'[i].settings[k] =
                           IF k \in DOMAIN partial THEN partial[k]
                           ELSE nodes[i].settings[k]
             ELSE nodes'[i].settings = nodes[i].settings

\* C18: every settings edit, of one node, of several nodes at once, or made
\* when an upload completes, sets the keys of the partial settings and leaves
\* every other key of the edited nodes and all settings of the other nodes as
\* they were.
C18_ShallowMerge ==
    [][ /\ \A id \in NodeIds :
              HasNode(nodes, id) =>
                 \A e \in SingleEdits(NodeOf(nodes, id)) :
                     EditSettings(id, e) => MergedOnly({id}, e)
        /\ \A ids \in SUBSET NodeIds, e \in BulkEdits :
              BulkEditSettings(ids, e) => MergedOnly(ids, e)
        /\ \A i \in 1..Len(uploads) :
              UploadReturn(i, TRUE) => MergedOnly({uploads[i].nodeId}, FileSettings) ]_vars

\* the keys of the node of upload i that were edited since the file was chosen
EditedDuringUpload(i) ==
    LET before == uploads[i].selectedNodes[1].settings
        now == NodeOf(nodes, uploads[i].nodeId).settings
    IN  { k \in DOMAIN now : k \notin DOMAIN before \/ now[k] # before[k] }

\* C29: when the upload of an input-image node completes, the settings of the
\* node hold the new src, fileName and mediaId and, for every other key that
\* was edited while the upload was in flight, the edited value.
C29_EditDuringUploadKept ==
    [][ \A i \in 1..Len(uploads) :
          (UploadReturn(i, TRUE) /\ HasNode(nodes, uploads[i].nodeId))
          => LET after == NodeOf(nodes', uploads[i].nodeId).settings
                 now == NodeOf(nodes, uploads[i].nodeId).settings
             IN  /\ \A k \in DOMAIN FileSettings : after[k] = FileSettings[k]
                 /\ \A k \in EditedDuringUpload(i) \ DOMAIN FileSettings :
                       k \in DOMAIN after /\ after[k] = now[k] ]_vars

----------------------------------------------------------------------------
(* Properties of the Scheduler, checked under RunSpec *)

\* the nodes reached from the nodes of from along at most k connections
RECURSIVE Reach(_, _)
Reach(from, k) ==
    IF k = 0 THEN from
    ELSE LET next == from \cup {c.to.nodeId : c \in {x \in connections : x.from.nodeId \in from}}
         IN  Reach(next, k - 1)

\* the node lies on a cycle of connections
OnCycle(nodeId) ==
    \E c \in connections :
        c.from.nodeId = nodeId /\ nodeId \in Reach({c.to.nodeId}, Len(nodes))

Cyclic == \E i \in 1..Len(nodes) : OnCycle(nodes[i].id)

PositionIn(order, nodeId) == CHOOSE i \in 1..Len(order) : order[i] = nodeId

Finished(nodeId) == NodeOf(nodes, nodeId).status \in {"completed", "failed", "blocked"}

\* C19: for an acyclic workflow the run is not aborted, its order holds every
\* node exactly once and puts every node after all the nodes that feed one of
\* its inputs, and a node is running, or has run, only when all its upstream
\* nodes have finished.
C19_TopologicalOrder ==
    (~Cyclic /\ run.phase # "idle") =>
        /\ run.phase \in {"running", "done"}
        /\ Len(run.order) = Len(nodes)
        /\ \A i \in 1..Len(nodes) :
              Cardinality({k \in 1..Len(run.order) : run.order[k] = nodes[i].id}) = 1
        /\ \A c \in connections :
              PositionIn(run.order, c.from.nodeId) < PositionIn(run.order, c.to.nodeId)
        /\ \A i \in 1..Len(nodes) :
              nodes[i].status \in {"running", "completed", "failed"} =>
                  \A u \in Upstream(connections, nodes[i].id) : Finished(u)

C19_Witness ==
    /\ ~Cyclic
    /\ run.phase = "done"
    /\ Len(nodes) = 3
    /\ run.order = <<3, 1, 2>>
    /\ \A i \in 1..Len(nodes) : nodes[i].status = "completed"

\* C20: for a workflow with a cycle the run is aborted with CyclicGraphError
\* naming the nodes of the cycles; no node ever leaves the status idle and no
\* backend call is made.
C20_CycleAborts ==
    Cyclic =>
        /\ \A i \in 1..Len(nodes) : nodes[i].status = "idle"
        /\ run.backendCalls = 0
        /\ run.phase \in {"idle", "aborted"}
        /\ run.phase = "aborted" =>
              /\ run.error = "CyclicGraphError"
              /\ run.order = <<>>
              /\ \A i \in 1..Len(nodes) : OnCycle(nodes[i].id) => nodes[i].id \in run.cyclic

C20_Witness ==
    /\ Cyclic
    /\ run.phase = "aborted"
    /\ \E i \in 1..Len(nodes) :
          /\ ~OnCycle(nodes[i].id)
          /\ Upstream(connections, nodes[i].id) = {}
          /\ nodes[i].id \notin run.cyclic

=============================================================================
